---------------------------- MODULE Spec2Model ----------------------------
(***************************************************************************)
(* A model of github-secrets: the rate limiter (src/src/rate_limit.rs),    *)
(* the update run of main (src/src/main.rs), the GitHubClient              *)
(* (src/src/github.rs) and the two terminal dialogs of src/src/prompt.rs.  *)
(*                                                                         *)
(* Six specifications share the variables:                                 *)
(*   SpecRL      the RateLimiter driven by an arbitrary caller;            *)
(*   Spec        one run of main, from the selected repositories and the   *)
(*               entered secrets to the end of the retry pass;             *)
(*   SpecGH      the calls of one GitHubClient against a remote that       *)
(*               answers arbitrarily;                                      *)
(*   SpecPrompt  prompt_secrets_with under arbitrary key events, and what  *)
(*               main prints about the pairs it returns;                   *)
(*   SpecSelect  select_repositories_with under arbitrary key events;      *)
(*   SpecManage  manage_config_with under arbitrary key events.            *)
(* main.rs never touches a RateLimiter, so under Spec the limiter's        *)
(* variables stay as constructed.  Under each specification the variables  *)
(* of the other components stay at their initial values.                   *)
(***************************************************************************)
EXTENDS Integers, Sequences, FiniteSets, TLC

(***************************************************************************)
(* Bounds of the model.                                                    *)
(***************************************************************************)
\* with_limits(max_requests_per_hour, max_concurrent, window_secs) is
\* explored for every argument in 0..bound.
MaxRequestsLimit == 2
MaxConcurrentLimit == 2
MaxWindowSecs == 2
\* The monotonic clock (Instant::now(), in milliseconds since the limiter
\* was built) advances in steps of TickMs and is explored up to MaxClockMs.
TickMs == 500
MaxClockMs == 3000
\* At most MaxSelected repositories are selected for a run.
MaxSelected == 2

\* prompt_secrets_with: a key is typed up to MaxKeyLen characters (beyond
\* a held key's run) and a value up to MaxValueLen characters, and at most
\* MaxSecretsEntered pairs are committed.
MaxKeyLen == 2
MaxValueLen == 2
MaxSecretsEntered == 2
\* select_repositories_with is given a list of 0 to MaxRepositories
\* repositories.
MaxRepositories == 4
\* manage_config_with is given a configuration of 0 to
\* MaxConfigRepositories repositories and lets the list grow to that many;
\* a field of the input dialog is typed up to MaxFieldLen characters.
MaxConfigRepositories == 3
MaxFieldLen == 1

\* constants::validation::MAX_SECRET_KEY_LENGTH, MIN_SECRET_KEY_LENGTH
MAX_SECRET_KEY_LENGTH == 100
MIN_SECRET_KEY_LENGTH == 1

\* constants::rate_limit::BATCH_DELAY_MS
BATCH_DELAY_MS == 100
\* Duration::from_secs: milliseconds in a second
MILLIS_PER_SEC == 1000

VARIABLES
    \* ---- struct RateLimiter (rate_limit.rs:8-19)
    max_requests_per_hour,  \* u32
    window,                 \* Duration, in ms
    request_times,          \* Vec<Instant>: sequence of clock readings
    max_concurrent,         \* usize
    current_concurrent,     \* usize
    \* ---- the environment of the limiter
    clock,                  \* what Instant::now() returns
    \* ---- the one wait_if_needed future that can exist (&mut self)
    rl_pc,                  \* "idle" | "loop" | "poll_sleep" | "hourly"
                            \*        | "window_sleep" | "record"
    rl_now,                 \* its local `now` (line 55)
    rl_wake,                \* deadline of the sleep it is suspended in
    rl_full,                \* history: len >= max after the first prune
    rl_oldest,              \* history: the oldest timestamp at that moment,
                            \*   <<t>>, or <<>> when there was none
    rl_event,               \* history: label of the last limiter step
    \* ---- main (main.rs): the inputs of the run
    selected_indices,       \* Vec<usize> from select_repositories (1-based)
    secrets,                \* Vec<SecretPair> from prompt_secrets
    \* ---- main: its locals
    pc,                     \* the call main is about to make, or its end
    ri,                     \* position of the outer loop in selected_indices
    si,                     \* position of the inner loop in secrets
    fi,                     \* position of the retry loop in all_failed_secrets
    secret_info,            \* Option<SecretInfo> of the current pair
    all_results,            \* Vec<UpdateResult>
    all_failed_secrets,     \* Vec<(usize, SecretPair)>
    \* ---- history of the run
    last_call,              \* the call the last step made (to GitHubClient or
                            \* to a prompt) and what it returned, if any
    update_log,             \* every update_secret call so far, in call order
    declined,               \* the pairs whose overwrite the user declined
    last_info,              \* what the last get_secret_info answered, if any
    breakdown,              \* the per-repository lines the last step printed
                            \* (lines 156-166), in the order printed
    \* ---- GitHubClient (github.rs): one call at a time
    gh_pc,                  \* "idle" | "get_public_key" | "encrypt" | "put"
                            \*        | "returned"
    gh_call,                \* the call in progress or just returned:
                            \*   its method and its arguments
    gh_public_key,          \* Option<PublicKey>: the local `public_key`
    gh_encrypted_value,     \* Option<String>: the local `encrypted_value`
    gh_requests,            \* history: the requests the call has issued
    gh_answer,              \* history: what the remote answered to the last
                            \*   request, as octocrab reports it
    gh_result,              \* Option<Result<..>>: what the call returned
    \* ---- prompt_secrets_with (prompt.rs:61-186): its locals
    prompt_pc,              \* "idle" | "input" | "confirm_exit" | "returned"
                            \*        | "exited"
    prompt_secrets,         \* Vec<SecretPair>: the local `secrets`
    current_key,            \* String, a sequence of characters
    current_value,          \* String, a sequence of characters
    input_mode,             \* InputMode: "Key" | "Value"
    message,                \* String, in parts
    cursor_pos,             \* confirm_exit_ratatui_with: 0 = Yes, 1 = No
    frame,                  \* what the last terminal.draw put on the screen
    prompt_result,          \* Option<Result<Vec<SecretPair>>>
    terminal,               \* the lines main printed last about a pair
    prompt_event,           \* history: the key event handled last
    \* ---- select_repositories_with (prompt.rs:655-738): its locals
    sel_pc,                 \* "idle" | "select" | "returned" | "exited"
    repositories_len,       \* repositories.len()
    selected,               \* Vec<bool>; selected[1] is "Select All"
    list_state,             \* ListState: the position of the cursor
    sel_result,             \* Option<Result<Vec<usize>>>
    sel_event,              \* history: the key event handled last
    \* manage_config_with (prompt.rs)
    mc_pc,                  \* "idle" | "run" | "confirm" | "returned" |
                            \* "exited" | "panicked"
    config_repositories,    \* config.repositories
    mc_list_state,          \* ListState::selected(): Option<usize>
    app_mode,               \* "Browsing" | "Input"
    input_state,            \* InputState
    confirm_pos,            \* cursor_pos of prompt_confirm_with
    mc_result,              \* Option<Result<Option<Config>>>
    mc_event                \* history: the key event handled last

rlvars == <<max_requests_per_hour, window, request_times, max_concurrent,
            current_concurrent, clock, rl_pc, rl_now, rl_wake, rl_full,
            rl_oldest, rl_event>>

mainvars == <<selected_indices, secrets, pc, ri, si, fi, secret_info,
              all_results, all_failed_secrets, last_call, update_log,
              declined, last_info, breakdown>>

ghvars == <<gh_pc, gh_call, gh_public_key, gh_encrypted_value, gh_requests,
            gh_answer, gh_result>>

\* the variables of the components beside the limiter and the run of main
promptvars == <<prompt_pc, prompt_secrets, current_key, current_value,
                input_mode, message, cursor_pos, frame, prompt_result,
                terminal, prompt_event>>

selvars == <<sel_pc, repositories_len, selected, list_state, sel_result,
             sel_event>>

mcvars == <<mc_pc, config_repositories, mc_list_state, app_mode,
            input_state, confirm_pos, mc_result, mc_event>>

extvars == <<ghvars, promptvars, selvars, mcvars>>

vars == <<rlvars, mainvars, extvars>>

(***************************************************************************)
(* RateLimiter                                                             *)
(***************************************************************************)

\* Instant::duration_since: saturates at zero
duration_since(now, earlier) == IF now >= earlier THEN now - earlier ELSE 0

\* the closure of retain (lines 59 and 83)
InWindow(now, time, w) == duration_since(now, time) < w

\* self.request_times.retain(|&time| now.duration_since(time) < self.window)
retain(times, now, w) ==
    LET Keep(time) == InWindow(now, time, w)
    IN  SelectSeq(times, Keep)

\* (an exit test that lets one caller too many through)
BelowConcurrentBroken(cc, maxc) == cc <= maxc
\* the loop's exit test (line 63)
BelowConcurrent(cc, maxc) == cc < maxc

\* (an hourly test that is off by one)
AtHourlyLimitBroken(times, maxr) == Len(times) + 1 >= maxr
\* the hourly test (line 73)
AtHourlyLimit(times, maxr) == Len(times) >= maxr

\* (a wait that does not wait)
WaitTimeBroken(w, elapsed) == 0
\* wait_time (line 78)
WaitTime(w, elapsed) == w - elapsed

\* (a release without the guard of line 95)
ReleasedBroken(cc) == cc - 1
\* the body of release (lines 95-97)
Released(cc) == IF cc > 0 THEN cc - 1 ELSE cc

\* the number of recorded timestamps inside the trailing window at `now`
CountInWindow(times, now, w) ==
    Cardinality({i \in 1..Len(times) : InWindow(now, times[i], w)})

\* RateLimiter::with_limits: any limits, nothing recorded, nothing in flight
with_limits(maxr, maxc, window_secs) ==
    /\ max_requests_per_hour = maxr
    /\ window = window_secs * MILLIS_PER_SEC
    /\ request_times = <<>>
    /\ max_concurrent = maxc
    /\ current_concurrent = 0

NoFuture ==
    /\ rl_pc = "idle"
    /\ rl_now = 0
    /\ rl_wake = 0
    /\ rl_full = FALSE
    /\ rl_oldest = <<>>

NoFuture_next ==
    /\ rl_pc' = "idle"
    /\ rl_now' = 0
    /\ rl_wake' = 0
    /\ rl_full' = FALSE
    /\ rl_oldest' = <<>>

Limits == <<max_requests_per_hour, window, max_concurrent>>

\* lines 55-59: read the clock, drop the timestamps outside the window
wait_if_needed_Begin ==
    /\ rl_pc = "idle"
    /\ rl_now' = clock
    /\ request_times' = retain(request_times, clock, window)
    /\ rl_full' = AtHourlyLimit(request_times', max_requests_per_hour)
    /\ rl_oldest' = IF request_times' = <<>> THEN <<>>
                                              ELSE <<Head(request_times')>>
    /\ rl_pc' = "loop"
    /\ rl_event' = "begin"
    /\ UNCHANGED <<mainvars, extvars>>
    /\ UNCHANGED <<Limits, current_concurrent, clock, rl_wake>>

\* lines 62-70: one turn of the loop; at the limit the future suspends in
\* sleep(BATCH_DELAY_MS)
wait_if_needed_Loop ==
    /\ rl_pc = "loop"
    /\ IF BelowConcurrent(current_concurrent, max_concurrent)
       THEN /\ rl_pc' = "hourly"
            /\ rl_wake' = rl_wake
       ELSE /\ rl_pc' = "poll_sleep"
            /\ rl_wake' = clock + BATCH_DELAY_MS
    /\ rl_event' = "loop"
    /\ UNCHANGED <<mainvars, extvars>>
    /\ UNCHANGED <<Limits, request_times, current_concurrent, clock, rl_now,
                   rl_full, rl_oldest>>

\* the sleep of line 66 is over: back to the loop's test
wait_if_needed_PollWake ==
    /\ rl_pc = "poll_sleep"
    /\ clock >= rl_wake
    /\ rl_pc' = "loop"
    /\ rl_event' = "poll_wake"
    /\ UNCHANGED <<mainvars, extvars>>
    /\ UNCHANGED <<Limits, request_times, current_concurrent, clock, rl_now,
                   rl_wake, rl_full, rl_oldest>>

\* lines 73-79: at the hourly limit, sleep until the oldest timestamp is
\* `window` old (measured from the `now` of line 55)
wait_if_needed_Hourly ==
    /\ rl_pc = "hourly"
    /\ IF /\ AtHourlyLimit(request_times, max_requests_per_hour)
          /\ request_times # <<>>
          /\ duration_since(rl_now, Head(request_times)) < window
       THEN /\ rl_wake' = clock + WaitTime(window,
                              duration_since(rl_now, Head(request_times)))
            /\ rl_pc' = "window_sleep"
       ELSE /\ rl_wake' = rl_wake
            /\ rl_pc' = "record"
    /\ rl_event' = "hourly"
    /\ UNCHANGED <<mainvars, extvars>>
    /\ UNCHANGED <<Limits, request_times, current_concurrent, clock, rl_now,
                   rl_full, rl_oldest>>

\* lines 80-83: the sleep of line 79 is over: read the clock, prune again
wait_if_needed_WindowWake ==
    /\ rl_pc = "window_sleep"
    /\ clock >= rl_wake
    /\ request_times' = retain(request_times, clock, window)
    /\ rl_pc' = "record"
    /\ rl_event' = "window_wake"
    /\ UNCHANGED <<mainvars, extvars>>
    /\ UNCHANGED <<Limits, current_concurrent, clock, rl_now, rl_wake,
                   rl_full, rl_oldest>>

\* lines 88-90: record the request and return
wait_if_needed_Record ==
    /\ rl_pc = "record"
    /\ request_times' = Append(request_times, clock)
    /\ current_concurrent' = current_concurrent + 1
    /\ NoFuture_next
    /\ rl_event' = "acquired"
    /\ UNCHANGED <<mainvars, extvars>>
    /\ UNCHANGED <<Limits, clock>>

\* The caller drops the future while it is suspended in a sleep (the only
\* way for the caller to get the limiter back from a pending call).
wait_if_needed_Drop ==
    /\ rl_pc \in {"poll_sleep", "window_sleep"}
    /\ NoFuture_next
    /\ rl_event' = "dropped"
    /\ UNCHANGED <<mainvars, extvars>>
    /\ UNCHANGED <<Limits, request_times, current_concurrent, clock>>

\* release(&mut self). It needs the exclusive borrow of the limiter, which a
\* pending wait_if_needed(&mut self) future holds until it returns or is
\* dropped: release can be called only when no such future exists.
release ==
    /\ rl_pc = "idle"
    /\ current_concurrent' = Released(current_concurrent)
    /\ rl_event' = "released"
    /\ UNCHANGED <<mainvars, extvars>>
    /\ UNCHANGED <<Limits, request_times, clock, rl_pc, rl_now, rl_wake,
                   rl_full, rl_oldest>>

\* time passes
Tick ==
    /\ clock + TickMs <= MaxClockMs
    /\ clock' = clock + TickMs
    /\ rl_event' = "tick"
    /\ UNCHANGED <<mainvars, extvars>>
    /\ UNCHANGED <<Limits, request_times, current_concurrent, rl_pc, rl_now,
                   rl_wake, rl_full, rl_oldest>>

\* no run of main is going on
NoRun ==
    /\ selected_indices = <<>>
    /\ secrets = <<>>
    /\ pc = "start"
    /\ ri = 0
    /\ si = 0
    /\ fi = 0
    /\ secret_info = <<>>
    /\ all_results = <<>>
    /\ all_failed_secrets = <<>>
    /\ last_call = <<>>
    /\ update_log = <<>>
    /\ declined = {}
    /\ last_info = <<>>
    /\ breakdown = <<>>

\* no call of the GitHubClient is going on
NoClientCall ==
    /\ gh_pc = "idle"
    /\ gh_call = <<>>
    /\ gh_public_key = <<>>
    /\ gh_encrypted_value = <<>>
    /\ gh_requests = <<>>
    /\ gh_answer = <<>>
    /\ gh_result = <<>>

\* the components beside the limiter and the run of main are at rest
\* prompt_secrets_with is not running
NoPrompt ==
    /\ prompt_pc = "idle"
    /\ prompt_secrets = <<>>
    /\ current_key = <<>>
    /\ current_value = <<>>
    /\ input_mode = "Key"
    /\ message = <<>>
    /\ cursor_pos = 0
    /\ frame = <<>>
    /\ prompt_result = <<>>
    /\ terminal = <<>>
    /\ prompt_event = "none"

\* select_repositories_with is not running
NoSelection ==
    /\ sel_pc = "idle"
    /\ repositories_len = 0
    /\ selected = <<>>
    /\ list_state = 0
    /\ sel_result = <<>>
    /\ sel_event = "none"

\* InputState::new_add() (prompt.rs 981-991)
new_add ==
    [owner |-> <<>>, name |-> <<>>, alias |-> <<>>, active_field |-> "Owner",
     is_edit |-> FALSE, edit_index |-> <<>>, error_msg |-> ""]

\* manage_config_with is not running
NoManage ==
    /\ mc_pc = "idle"
    /\ config_repositories = <<>>
    /\ mc_list_state = <<>>
    /\ app_mode = "Browsing"
    /\ input_state = new_add
    /\ confirm_pos = 0
    /\ mc_result = <<>>
    /\ mc_event = "none"

NoExt ==
    /\ NoClientCall
    /\ NoPrompt
    /\ NoSelection
    /\ NoManage

InitRL ==
    /\ \E maxr \in 0..MaxRequestsLimit, maxc \in 0..MaxConcurrentLimit,
          window_secs \in 0..MaxWindowSecs :
            with_limits(maxr, maxc, window_secs)
    /\ clock = 0
    /\ NoFuture
    /\ rl_event = "new"
    /\ NoRun
    /\ NoExt

NextRL ==
    \/ wait_if_needed_Begin
    \/ wait_if_needed_Loop
    \/ wait_if_needed_PollWake
    \/ wait_if_needed_Hourly
    \/ wait_if_needed_WindowWake
    \/ wait_if_needed_Record
    \/ wait_if_needed_Drop
    \/ release
    \/ Tick

SpecRL == InitRL /\ [][NextRL]_vars

(***************************************************************************)
(* main: its inputs                                                        *)
(***************************************************************************)

\* Option<T>: None is <<>>, Some(x) is <<x>>
None == <<>>
Some(x) == <<x>>

\* config.get_repositories(): the configuration of the run. from_file does
\* not reject an entry that repeats another.
repositories ==
    << [owner |-> "o", name |-> "r",  alias |-> None],
       [owner |-> "o", name |-> "r2", alias |-> Some("A")],
       [owner |-> "o", name |-> "r",  alias |-> None] >>

\* the pairs the user can have entered; prompt_secrets returns distinct keys
SecretInputs ==
    LET p1 == [key |-> "K1", value |-> "v1"]
        p2 == [key |-> "K2", value |-> "v2"]
    IN  {<<>>, <<p1>>, <<p1, p2>>, <<p2, p1>>}

RECURSIVE Ascending(_)
Ascending(S) ==
    IF S = {} THEN <<>>
    ELSE LET m == CHOOSE x \in S : \A y \in S : x <= y
         IN  <<m>> \o Ascending(S \ {m})

\* what select_repositories returns (prompt.rs:727-737): the selected
\* indices in ascending order, never empty
Selections ==
    {Ascending(S) : S \in {T \in SUBSET (1..Len(repositories)) :
                              T # {} /\ Cardinality(T) <= MaxSelected}}

\* Repository::path (config.rs:38-40); a String is the sequence of its parts
path(repo) == <<repo.owner, "/", repo.name>>

\* (a display name that is the alias alone)
display_nameBroken(repo) ==
    IF repo.alias # None THEN <<repo.alias[1]>> ELSE path(repo)
\* Repository::display_name (config.rs:50-56)
display_name(repo) ==
    IF repo.alias # None
    THEN <<repo.alias[1], " (">> \o path(repo) \o <<")">>
    ELSE path(repo)

\* what the remote answers to get_secret_info (github.rs:87-104)
InfoResults ==
    { [tag |-> "Err",  updated_at |-> None],
      [tag |-> "None", updated_at |-> None],
      [tag |-> "Some", updated_at |-> None],
      [tag |-> "Some", updated_at |-> Some("2024-01-01T00:00:00Z")] }

\* the error chain of a failed update_secret (github.rs:107-110, 150-185)
UpdateErrorChain ==
    <<"Failed to get public key from GitHub", "GitHub API error (status 403)">>

\* error_chain.join(" -> ") (main.rs:106-112; the source's separator is an
\* arrow character between two spaces)
RECURSIVE join(_, _)
join(chain, sep) ==
    IF Len(chain) = 0 THEN <<>>
    ELSE IF Len(chain) = 1 THEN <<chain[1]>>
    ELSE <<chain[1], sep>> \o join(Tail(chain), sep)

detailed_error(chain) == join(chain, " -> ")

(***************************************************************************)
(* main: the run                                                           *)
(***************************************************************************)

\* struct UpdateResult (main.rs:9-15)
UpdateResult(secret_name, repository, success, error) ==
    [secret_name |-> secret_name, repository |-> repository,
     success |-> success, error |-> error]

\* a call and what it returned
Call(op, repo, key, pass, res) ==
    [op |-> op, repo |-> repo, key |-> key, pass |-> pass, res |-> res]

\* the locals of the current iteration
repo_index == selected_indices[ri]
selected_repo == repositories[repo_index]
repo_display == display_name(selected_repo)
secret == secrets[si]

\* the head of `for &repo_index in &selected_indices` (line 50)
RepoLoop(i) ==
    IF i <= Len(selected_indices)
    THEN [pc |-> "new_client", ri |-> i, si |-> 0]
    ELSE [pc |-> "summary", ri |-> 0, si |-> 0]

\* (an inner loop that stops one secret short)
SecretLoopBroken(i, j) ==
    IF j < Len(secrets)
    THEN [pc |-> "get_secret_info", ri |-> i, si |-> j]
    ELSE RepoLoop(i + 1)
\* the head of `for secret in &secrets` (line 65)
SecretLoop(i, j) ==
    IF j <= Len(secrets)
    THEN [pc |-> "get_secret_info", ri |-> i, si |-> j]
    ELSE RepoLoop(i + 1)

\* (a retry loop that ends in another retry offer)
RetryLoopBroken(k) ==
    IF k <= Len(all_failed_secrets)
    THEN [pc |-> "retry_new_client", fi |-> k]
    ELSE [pc |-> "confirm_retry", fi |-> 0]
\* (a lookup that goes on to the next pair while this pair's update is
\* still to be made)
AfterLookupBroken(tag, i, j) ==
    IF tag = "Some"
    THEN [pc |-> "confirm_secret_update", ri |-> i, si |-> j]
    ELSE SecretLoop(i, j + 1)
\* lines 71-89: with Some(info) the overwrite prompt comes next, with None
\* the update_secret call; both are for the pair just looked up
AfterLookup(tag, i, j) ==
    IF tag = "Some"
    THEN [pc |-> "confirm_secret_update", ri |-> i, si |-> j]
    ELSE [pc |-> "update_secret", ri |-> i, si |-> j]

\* the head of `for (repo_index, secret) in &all_failed_secrets` (line 183);
\* after the loop main prints the final summary and returns Ok
RetryLoop(k) ==
    IF k <= Len(all_failed_secrets)
    THEN [pc |-> "retry_new_client", fi |-> k]
    ELSE [pc |-> "done_ok", fi |-> 0]

Goto(pos) ==
    /\ pc' = pos.pc
    /\ ri' = pos.ri
    /\ si' = pos.si

\* `?`: main returns the error
Abort == pc' = "done_err"

\* (a skip that records nothing)
DeclinedResultBroken(results, key, repo) == results
\* lines 79-84: the result of a declined overwrite
DeclinedResult(results, key, repo) ==
    Append(results, UpdateResult(key, repo, FALSE,
                                 Some(<<"User declined to overwrite">>)))

\* (a successful update recorded as a failure)
SuccessResultBroken(results, key, repo) ==
    Append(results, UpdateResult(key, repo, FALSE, None))
\* (a declined overwrite queued for the retry like a failed update)
DeclinedFailedBroken(failed, index, pair) == Append(failed, <<index, pair>>)
\* lines 79-85: a declined overwrite pushes a result and continues; nothing
\* is pushed to all_failed_secrets
DeclinedFailed(failed, index, pair) == failed

\* lines 97-102: the result of a successful update
SuccessResult(results, key, repo) ==
    Append(results, UpdateResult(key, repo, TRUE, None))

\* (a failed update that records nothing)
FailureResultBroken(results, key, repo, chain) == results
\* lines 122-127: the result of a failed update
FailureResult(results, key, repo, chain) ==
    Append(results, UpdateResult(key, repo, FALSE, Some(detailed_error(chain))))

\* line 139
success_count(results) ==
    Cardinality({n \in 1..Len(results) : results[n].success})
\* (a tally that counts every result as a failure)
failure_countBroken(results) == Len(results)
\* line 140
failure_count(results) == Len(results) - success_count(results)

\* (a retry that appends a new entry instead of rewriting the old one)
MarkSuccessBroken(results, key, repo) ==
    Append(results, UpdateResult(key, repo, TRUE, None))
\* lines 203-207: the first result with this name and this display name
\* becomes a success
MarkSuccess(results, key, repo) ==
    LET hits == {n \in 1..Len(results) :
                    /\ results[n].secret_name = key
                    /\ results[n].repository = repo}
    IN  IF hits = {} THEN results
        ELSE LET n == CHOOSE x \in hits : \A y \in hits : x <= y
             IN  [results EXCEPT ![n] = [@ EXCEPT !.success = TRUE,
                                                  !.error = None]]

\* (a grouping that leaves the failed results out)
repo_resultsBroken(results) ==
    LET keys == {results[n].repository : n \in 1..Len(results)}
        Positions == [n \in 1..Len(results) |-> n]
    IN  [k \in keys |->
           LET Has(n) == results[n].repository = k /\ results[n].success
           IN  SelectSeq(Positions, Has)]
\* lines 148-154: repo_results, the map from a display name to the
\* references to the results with that name (a reference is the position of
\* the result in the list), each Vec in the order of the pushes
repo_results(results) ==
    LET keys == {results[n].repository : n \in 1..Len(results)}
        Positions == [n \in 1..Len(results) |-> n]
    IN  [k \in keys |->
           LET Has(n) == results[n].repository = k
           IN  SelectSeq(Positions, Has)]

\* the orders in which `for (repo, results) in &repo_results` (line 157) can
\* go through the keys: a HashMap iterates in an arbitrary order
Orders(keys) ==
    {order \in [1..Cardinality(keys) -> keys] :
        \A i, j \in 1..Cardinality(keys) : order[i] = order[j] => i = j}

\* lines 158-165: the line printed for one repository
BreakdownLine(results, repo) ==
    LET group == repo_results(results)[repo]
        repo_success == Cardinality({i \in 1..Len(group) :
                                        results[group[i]].success})
    IN  [repo |-> repo, successful |-> repo_success,
         failed |-> Len(group) - repo_success]

Inputs == <<selected_indices, secrets>>

\* (a test that never finds the list empty)
is_emptyBroken(v) == FALSE
\* Vec::is_empty (line 35)
is_empty(v) == Len(v) = 0

\* lines 35-47: nothing to do without secrets; otherwise enter the loops
Start ==
    /\ pc = "start"
    /\ IF is_empty(secrets)
       THEN pc' = "done_ok" /\ UNCHANGED <<ri, si>>
       ELSE Goto(RepoLoop(1))
    /\ last_call' = None
    /\ UNCHANGED <<Inputs, fi, secret_info, all_results, all_failed_secrets,
                   update_log, declined, last_info, rlvars, extvars>>
    /\ UNCHANGED breakdown

\* lines 58-63: GitHubClient::new(...).context(...)?
NewClient ==
    /\ pc = "new_client"
    /\ \E res \in {"Ok", "Err"} :
        /\ last_call' = Some(Call("GitHubClient::new", repo_index, "", 1, res))
        /\ IF res = "Ok"
           THEN Goto(SecretLoop(ri, 1))
           ELSE Abort /\ UNCHANGED <<ri, si>>
    /\ UNCHANGED <<Inputs, fi, secret_info, all_results, all_failed_secrets,
                   update_log, declined, last_info, rlvars, extvars>>
    /\ UNCHANGED breakdown

\* lines 66-69: get_secret_info(&secret.key).await.context(...)?
GetSecretInfo ==
    /\ pc = "get_secret_info"
    /\ \E res \in InfoResults :
        /\ last_call' = Some(Call("get_secret_info", repo_index, secret.key,
                                  1, res.tag))
        /\ last_info' = Some(res.tag)
        /\ IF res.tag = "Err"
           THEN Abort /\ UNCHANGED <<ri, si, secret_info>>
           ELSE /\ Goto(AfterLookup(res.tag, ri, si))
                /\ secret_info' = IF res.tag = "Some"
                                  THEN Some([updated_at |-> res.updated_at])
                                  ELSE None
    /\ UNCHANGED <<Inputs, fi, all_results, all_failed_secrets,
                   update_log, declined, rlvars, extvars>>
    /\ UNCHANGED breakdown

\* lines 71-87: the secret exists: ask before overwriting it
ConfirmSecretUpdate ==
    /\ pc = "confirm_secret_update"
    /\ \E res \in {"true", "false", "Err"} :
        /\ last_call' = Some(Call("confirm_secret_update", repo_index,
                                  secret.key, 1, res))
        /\ IF res = "Err"
           THEN /\ Abort
                /\ UNCHANGED <<ri, si, all_results, all_failed_secrets,
                               declined>>
           ELSE IF res = "false"
           THEN /\ all_results' =
                      DeclinedResult(all_results, secret.key, repo_display)
                /\ all_failed_secrets' =
                      DeclinedFailed(all_failed_secrets, repo_index, secret)
                /\ declined' = declined \cup {<<repo_index, secret.key>>}
                /\ Goto(SecretLoop(ri, si + 1))
           ELSE /\ pc' = "update_secret"
                /\ UNCHANGED <<ri, si, all_results, all_failed_secrets,
                               declined>>
    /\ secret_info' = None
    /\ UNCHANGED <<Inputs, fi, update_log, last_info,
                   rlvars, extvars>>
    /\ UNCHANGED breakdown

\* lines 89-130: update_secret and the result it is recorded as
UpdateSecret ==
    /\ pc = "update_secret"
    /\ \E res \in {"Ok", "Err"} :
        LET call == Call("update_secret", repo_index, secret.key, 1, res)
        IN  /\ last_call' = Some(call)
            /\ update_log' = Append(update_log, call)
            /\ IF res = "Ok"
               THEN /\ all_results' =
                          SuccessResult(all_results, secret.key, repo_display)
                    /\ all_failed_secrets' = all_failed_secrets
               ELSE /\ all_results' =
                          FailureResult(all_results, secret.key, repo_display,
                                        UpdateErrorChain)
                    /\ all_failed_secrets' =
                          Append(all_failed_secrets, <<repo_index, secret>>)
    /\ Goto(SecretLoop(ri, si + 1))
    /\ secret_info' = None
    /\ UNCHANGED <<Inputs, fi, declined, last_info, rlvars, extvars>>
    /\ UNCHANGED breakdown

\* lines 135-178: the summary; with a failure main goes on to offer a retry
Summary ==
    /\ pc = "summary"
    /\ pc' = IF failure_count(all_results) > 0 THEN "confirm_retry"
                                               ELSE "done_ok"
    /\ last_call' = None
    /\ UNCHANGED <<Inputs, ri, si, fi, secret_info, all_results,
                   all_failed_secrets, update_log, declined, last_info,
                   rlvars, extvars>>
    /\ \E order \in Orders(DOMAIN repo_results(all_results)) :
          breakdown' = [i \in 1..Len(order) |->
                           BreakdownLine(all_results, order[i])]

\* line 180: prompt::confirm_retry()?
ConfirmRetry ==
    /\ pc = "confirm_retry"
    /\ \E res \in {"true", "false", "Err"} :
        /\ last_call' = Some(Call("confirm_retry", 0, "", 2, res))
        /\ IF res = "Err"
           THEN Abort /\ fi' = fi
           ELSE IF res = "false"
           THEN pc' = "done_ok" /\ fi' = fi
           ELSE pc' = RetryLoop(1).pc /\ fi' = RetryLoop(1).fi
    /\ UNCHANGED <<Inputs, ri, si, secret_info, all_results,
                   all_failed_secrets, update_log, declined, last_info,
                   rlvars, extvars>>
    /\ breakdown' = <<>>

\* lines 187-192: GitHubClient::new(...).context(...)? of the retry loop
RetryNewClient ==
    /\ pc = "retry_new_client"
    /\ \E res \in {"Ok", "Err"} :
        /\ last_call' = Some(Call("GitHubClient::new",
                                  all_failed_secrets[fi][1], "", 2, res))
        /\ IF res = "Ok" THEN pc' = "retry_update_secret" ELSE Abort
    /\ UNCHANGED <<Inputs, ri, si, fi, secret_info, all_results,
                   all_failed_secrets, update_log, declined, last_info,
                   rlvars, extvars>>
    /\ UNCHANGED breakdown

\* (a retry that looks the secret up again)
RetryCallBroken(failed, res) ==
    Call("get_secret_info", failed[1], failed[2].key, 2, res)
\* line 194: the one call the retry loop makes on a failed pair
RetryCall(failed, res) ==
    Call("update_secret", failed[1], failed[2].key, 2, res)

\* lines 194-228: update_secret again; a success rewrites the result found
\* by name and display name, a failure is only printed
RetryUpdateSecret ==
    /\ pc = "retry_update_secret"
    /\ LET failed == all_failed_secrets[fi]
           repo == repositories[failed[1]]
       IN  \E res \in {"Ok", "Err"} :
            LET call == RetryCall(failed, res)
            IN  /\ last_call' = Some(call)
                /\ update_log' = Append(update_log, call)
                /\ all_results' =
                      IF res = "Ok"
                      THEN MarkSuccess(all_results, failed[2].key,
                                       display_name(repo))
                      ELSE all_results
    /\ pc' = RetryLoop(fi + 1).pc
    /\ fi' = RetryLoop(fi + 1).fi
    /\ UNCHANGED <<Inputs, ri, si, secret_info, all_failed_secrets, declined,
                   last_info, rlvars, extvars>>
    /\ UNCHANGED breakdown

\* main before line 35: the repositories are selected and the secrets
\* entered; no limiter is involved
Init ==
    /\ selected_indices \in Selections
    /\ secrets \in SecretInputs
    /\ pc = "start"
    /\ ri = 0
    /\ si = 0
    /\ fi = 0
    /\ secret_info = None
    /\ all_results = <<>>
    /\ all_failed_secrets = <<>>
    /\ last_call = <<>>
    /\ update_log = <<>>
    /\ declined = {}
    /\ last_info = <<>>
    /\ breakdown = <<>>
    /\ with_limits(0, 0, 0)
    /\ clock = 0
    /\ NoFuture
    /\ rl_event = "new"
    /\ NoExt

Next ==
    \/ Start
    \/ NewClient
    \/ GetSecretInfo
    \/ ConfirmSecretUpdate
    \/ UpdateSecret
    \/ Summary
    \/ ConfirmRetry
    \/ RetryNewClient
    \/ RetryUpdateSecret

Spec == Init /\ [][Next]_vars

\* a limiter that is built and never used
NoLimiter ==
    /\ with_limits(0, 0, 0)
    /\ clock = 0
    /\ NoFuture
    /\ rl_event = "new"

(***************************************************************************)
(* GitHubClient (github.rs): what the remote answers and what octocrab     *)
(* makes of it                                                             *)
(***************************************************************************)
\* source.status_code == 404 (line 101)
NOT_FOUND == 404
\* crypto_box::XSALSA_PUBLICKEYBYTES (line 67)
XSALSA_PUBLICKEYBYTES == 32

SecretNames == {"K1", "K2"}
SecretValues == {"v1", "v2"}

\* struct SecretInfo (lines 12-19): updated_at is all that is read
SecretInfos == [updated_at : {None, Some("2024-01-01T00:00:00Z")}]

\* struct PublicKey (lines 6-10). `key` is a text: either the base64 of
\* decoded_len bytes or no base64 at all.
KeyTexts ==
    {[valid_base64 |-> TRUE, decoded_len |-> n] :
        n \in {XSALSA_PUBLICKEYBYTES - 1, XSALSA_PUBLICKEYBYTES}}
    \cup {[valid_base64 |-> FALSE, decoded_len |-> 0]}
PublicKeys == [key_id : {"kid1", "kid2"}, key : KeyTexts]

\* The remote's answer to one request.  GitHub answers a failure with a
\* non-2xx status and its error document; a 2xx answer carries a body that
\* is empty, the expected document, text that is no JSON at all (an HTML
\* page), a JSON document cut short, or a JSON document followed by more
\* text.  No answer at all is a transport failure.
SuccessStatuses == {200, 204}
FailureStatuses == {403, NOT_FOUND, 500}
UndecodableBodies == {"text", "truncated", "trailing"}
Answers(documents) ==
    {[kind |-> "transport_failure"]}
    \cup [kind : {"response"}, status : FailureStatuses,
          body : {[is |-> "github_error"]}]
    \cup [kind : {"response"}, status : SuccessStatuses,
          body : {[is |-> "empty"]}]
    \cup [kind : {"response"}, status : {200},
          body : {[is |-> "document", content |-> d] : d \in documents}
                 \cup {[is |-> b] : b \in UndecodableBodies}]

\* serde_json's message for a body it cannot decode, in parts
serde_json_message(body) ==
    CASE body.is = "empty" ->
            <<"EOF", " while parsing a value", " at line 1 column 0">>
      [] body.is = "text" ->
            <<"expected value", " at line 1 column 1">>
      [] body.is = "truncated" ->
            <<"EOF", " while parsing an object", " at line 1 column 5">>
      [] body.is = "trailing" ->
            <<"trailing characters", " at line 1 column 4">>

\* str::contains on a message in parts
contains(error_msg, pattern) ==
    \E i \in 1..Len(error_msg) : error_msg[i] = pattern

\* What self.octocrab.get / put (..).await evaluates to for an answer:
\* Error::Http without a response, Error::GitHub for a non-2xx status,
\* the decoded document, and Error::Json when the 2xx body does not decode
\* into the wanted type.  `lenient` is whether decoding an empty body into
\* the wanted type succeeds (serde::de::IgnoredAny), which octocrab leaves
\* open.
octocrab_await(answer, lenient) ==
    IF answer.kind = "transport_failure" THEN [tag |-> "Http"]
    ELSE IF answer.status \notin 200..299
         THEN [tag |-> "GitHub", status_code |-> answer.status]
    ELSE IF answer.body.is = "document"
         THEN [tag |-> "Ok", value |-> answer.body.content]
    ELSE IF answer.body.is = "empty" /\ lenient
         THEN [tag |-> "Ok", value |-> <<>>]
    ELSE [tag |-> "Json", source |-> serde_json_message(answer.body)]

\* anyhow results
Ok(x) == [tag |-> "Ok", value |-> x]
Err(chain) == [tag |-> "Err", chain |-> chain]

\* format!("/repos/{}/{}/actions/secrets/{}", owner, repo, secret_name)
SecretPath(secret_name) == <<"actions", "secrets", secret_name>>

(***************************************************************************)
(* GitHubClient: get_secret_info                                           *)
(***************************************************************************)
\* (a lookup that reports a missing secret as an error)
get_secret_info_resultBroken(outcome) ==
    IF outcome.tag = "Ok" THEN Ok(Some(outcome.value))
    ELSE Err(<<"Failed to get secret info", outcome.tag>>)

\* lines 95-103: the match on what the GET gave
get_secret_info_result(outcome) ==
    IF outcome.tag = "Ok" THEN Ok(Some(outcome.value))
    ELSE IF outcome.tag = "GitHub" /\ outcome.status_code = NOT_FOUND
         THEN Ok(None)
    ELSE Err(<<"Failed to get secret info", outcome.tag>>)

\* a call starts on a client that is not inside another call
ClientFree == gh_pc \in {"idle", "returned"}

\* get_secret_info(secret_name), lines 89-104: one GET and the match
get_secret_info ==
    /\ ClientFree
    /\ \E secret_name \in SecretNames, answer \in Answers(SecretInfos) :
        /\ gh_call' = [method |-> "get_secret_info",
                       secret_name |-> secret_name, secret_value |-> <<>>]
        /\ gh_requests' = <<[method |-> "GET",
                             path |-> SecretPath(secret_name)]>>
        /\ gh_answer' = Some(answer)
        /\ gh_result' =
                Some(get_secret_info_result(octocrab_await(answer, FALSE)))
    /\ gh_pc' = "returned"
    /\ gh_public_key' = None
    /\ gh_encrypted_value' = None
    /\ UNCHANGED <<rlvars, mainvars, promptvars, selvars, mcvars>>

(***************************************************************************)
(* GitHubClient: update_secret                                             *)
(***************************************************************************)
\* update_secret(secret_name, secret_value) is entered (line 106)
update_secret_Begin ==
    /\ ClientFree
    /\ \E secret_name \in SecretNames, secret_value \in SecretValues :
        gh_call' = [method |-> "update_secret", secret_name |-> secret_name,
                    secret_value |-> Some(secret_value)]
    /\ gh_pc' = "get_public_key"
    /\ gh_public_key' = None
    /\ gh_encrypted_value' = None
    /\ gh_requests' = <<>>
    /\ gh_answer' = None
    /\ gh_result' = None
    /\ UNCHANGED <<rlvars, mainvars, promptvars, selvars, mcvars>>

\* line 107 and get_public_key (lines 41-54): the GET of the public key;
\* a failure leaves update_secret through `?`
update_secret_GetPublicKey ==
    /\ gh_pc = "get_public_key"
    /\ \E answer \in Answers(PublicKeys) :
        LET outcome == octocrab_await(answer, FALSE) IN
        /\ gh_answer' = Some(answer)
        /\ IF outcome.tag = "Ok"
           THEN /\ gh_public_key' = Some(outcome.value)
                /\ gh_pc' = "encrypt"
                /\ gh_result' = None
           ELSE /\ gh_public_key' = None
                /\ gh_pc' = "returned"
                /\ gh_result' =
                     Some(Err(<<"Failed to get public key from GitHub",
                                outcome.tag>>))
    /\ gh_requests' = Append(gh_requests,
                             [method |-> "GET",
                              path |-> SecretPath("public-key")])
    /\ UNCHANGED <<gh_call, gh_encrypted_value>>
    /\ UNCHANGED <<rlvars, mainvars, promptvars, selvars, mcvars>>

\* encrypt_secret (lines 60-85).  `sealed` is whether xsalsa_seal succeeds
\* and `ephemeral` the key pair the sealed box draws.
encrypt_secret(public_key, secret_value, sealed, ephemeral) ==
    IF ~public_key.valid_base64
    THEN Err(<<"Failed to decode public key">>)
    ELSE IF public_key.decoded_len # XSALSA_PUBLICKEYBYTES
    THEN Err(<<"Invalid public key length">>)
    ELSE IF ~sealed
    THEN Err(<<"xsalsa_seal">>)
    ELSE Ok([base64_of |-> [sealed_for |-> public_key,
                            plaintext |-> secret_value,
                            ephemeral |-> ephemeral]])

Ephemerals == {"e1", "e2"}

\* lines 108-110: the value is encrypted against the fetched key; a
\* failure leaves update_secret through `?`
update_secret_Encrypt ==
    /\ gh_pc = "encrypt"
    /\ \E sealed \in BOOLEAN, ephemeral \in Ephemerals :
        LET encrypted == encrypt_secret(gh_public_key[1].key,
                                        gh_call.secret_value[1],
                                        sealed, ephemeral) IN
        IF encrypted.tag = "Ok"
        THEN /\ gh_encrypted_value' = Some(encrypted.value)
             /\ gh_pc' = "put"
             /\ gh_result' = None
        ELSE /\ gh_encrypted_value' = None
             /\ gh_pc' = "returned"
             /\ gh_result' =
                  Some(Err(<<"Failed to encrypt secret">> \o encrypted.chain))
    /\ UNCHANGED <<gh_call, gh_public_key, gh_requests, gh_answer>>
    /\ UNCHANGED <<rlvars, mainvars, promptvars, selvars, mcvars>>

\* (a request body that names a key other than the fetched one)
UpdateSecretRequestBroken(encrypted_value, public_key) ==
    [encrypted_value |-> encrypted_value, key_id |-> "kid1"]

\* lines 123-126
UpdateSecretRequest(encrypted_value, public_key) ==
    [encrypted_value |-> encrypted_value, key_id |-> public_key.key_id]

\* lines 130-180: the match on what the PUT gave
update_secret_result(outcome) ==
    IF outcome.tag = "Ok" THEN Ok(<<>>)
    ELSE IF outcome.tag = "Json"
    THEN IF contains(outcome.source, "EOF")
            \/ contains(outcome.source, "expected value")
         THEN Ok(<<>>)
         ELSE Err(<<"JSON parsing error">> \o outcome.source)
    ELSE IF outcome.tag = "GitHub"
    THEN Err(<<"GitHub API error", outcome.status_code>>)
    ELSE Err(<<"HTTP error">>)

\* lines 118-180: the PUT and the match
update_secret_Put ==
    /\ gh_pc = "put"
    /\ \E answer \in Answers({<<>>}), lenient \in BOOLEAN :
        /\ gh_answer' = Some(answer)
        /\ gh_result' =
                Some(update_secret_result(octocrab_await(answer, lenient)))
    /\ gh_requests' =
            Append(gh_requests,
                   [method |-> "PUT",
                    path |-> SecretPath(gh_call.secret_name),
                    body |-> UpdateSecretRequest(gh_encrypted_value[1],
                                                 gh_public_key[1])])
    /\ gh_pc' = "returned"
    /\ UNCHANGED <<gh_call, gh_public_key, gh_encrypted_value>>
    /\ UNCHANGED <<rlvars, mainvars, promptvars, selvars, mcvars>>

\* a GitHubClient that is built and not yet called
InitGH ==
    /\ NoExt
    /\ NoLimiter
    /\ NoRun

NextGH ==
    \/ get_secret_info
    \/ update_secret_Begin
    \/ update_secret_GetPublicKey
    \/ update_secret_Encrypt
    \/ update_secret_Put

SpecGH == InitGH /\ [][NextGH]_vars

(***************************************************************************)
(* prompt.rs: texts                                                        *)
(***************************************************************************)
\* A String is a sequence of parts: a typed character is a part of its own
\* and the literal pieces of a format string are one part each.

\* the characters the user types into the key field and the value field
KeyChars == {"K", " ", "!"}
ValueChars == {"s", " "}
\* the character that only ever occurs in a secret value
SecretChar == "s"
\* the key that is held down (auto-repeat)
HeldChar == "K"

\* constants::validation::VALID_SECRET_KEY_PATTERN: ^[a-zA-Z0-9_-]+$
VALID_SECRET_KEY_PATTERN ==
    {"a", "b", "c", "d", "e", "f", "g", "h", "i", "j", "k", "l", "m", "n",
     "o", "p", "q", "r", "s", "t", "u", "v", "w", "x", "y", "z",
     "A", "B", "C", "D", "E", "F", "G", "H", "I", "J", "K", "L", "M", "N",
     "O", "P", "Q", "R", "S", "T", "U", "V", "W", "X", "Y", "Z",
     "0", "1", "2", "3", "4", "5", "6", "7", "8", "9", "_", "-"}

\* str::trim: the text without its leading and trailing whitespace
trim(text) ==
    LET solid == {i \in 1..Len(text) : text[i] # " "} IN
    IF solid = {} THEN <<>>
    ELSE LET first == CHOOSE i \in solid : \A j \in solid : i <= j
             last == CHOOSE i \in solid : \A j \in solid : j <= i
         IN  SubSeq(text, first, last)

\* str::repeat
repeat(part, n) == [i \in 1..n |-> part]

\* String::pop
pop(text) == IF text = <<>> THEN <<>> ELSE SubSeq(text, 1, Len(text) - 1)

\* validation.rs:26-60: validate_secret_key looks at the trimmed key
validate_secret_key(key) ==
    LET trimmed == trim(key) IN
    IF trimmed = <<>>
    THEN Err(<<"Secret key cannot be empty">>)
    ELSE IF Len(trimmed) < MIN_SECRET_KEY_LENGTH
    THEN Err(<<"Secret key must be at least ",
               ToString(MIN_SECRET_KEY_LENGTH), " character(s) long">>)
    ELSE IF Len(trimmed) > MAX_SECRET_KEY_LENGTH
    THEN Err(<<"Secret key cannot exceed ",
               ToString(MAX_SECRET_KEY_LENGTH), " characters (got ",
               ToString(Len(trimmed)), ")">>)
    ELSE IF ~(\A i \in 1..Len(trimmed) :
                trimmed[i] \in VALID_SECRET_KEY_PATTERN)
    THEN Err(<<"Secret key can only contain letters, numbers, ",
               "underscores, and hyphens. Got: '">> \o trimmed \o <<"'">>)
    ELSE Ok(<<>>)

(***************************************************************************)
(* prompt.rs: render_secret_input_ui and the exit dialog                   *)
(***************************************************************************)
\* (a value shown as typed)
masked_valueBroken(value) == value

\* the mask character (a bullet, U+2022)
Bullet == "*"

\* lines 285 and 353: the bullet repeated value.len() times
masked_value(value) == repeat(Bullet, Len(value))

\* lines 280-291: the items of the "Added Secrets" list
ListItems(secs) ==
    [idx \in 1..Len(secs) |->
        <<ToString(idx), ". ">> \o secs[idx].key \o <<" = ">>
            \o masked_value(secs[idx].value)]

\* render_secret_input_ui (lines 195-403) on a terminal tall enough for
\* the list (available_for_list > 0)
render_secret_input_ui(secs, key, value, mode, msg) ==
    [screen |-> "secret_input",
     header |-> IF Len(secs) = 0
                THEN <<"Enter secret key-value pairs. Press ESC to finish.">>
                ELSE <<"Enter secret key-value pairs (", ToString(Len(secs)),
                       " added). Press ESC to finish.">>,
     list |-> ListItems(secs),
     input |-> IF mode = "Key"
               THEN <<"Secret key: ">> \o key \o <<"|">>
               ELSE <<"Secret value: ">> \o masked_value(value) \o <<"|">>,
     message |-> IF msg = <<>> THEN <<" ">> ELSE msg]

\* the closure drawn by confirm_exit_ratatui_with (lines 416-447)
render_confirm_exit(pos) ==
    [screen |-> "confirm_exit",
     header |-> <<"Finish entering secrets? (y/N)">>,
     list |-> <<<<IF pos = 0 THEN "> " ELSE "  ", "Yes">>,
                <<IF pos = 1 THEN "> " ELSE "  ", "No">>>>,
     input |-> <<>>,
     message |-> <<>>]

(***************************************************************************)
(* prompt.rs: prompt_secrets_with                                          *)
(***************************************************************************)
\* the top of the loop (lines 73-83): the screen is drawn from the locals
Draw ==
    frame' = render_secret_input_ui(prompt_secrets', current_key',
                                    current_value', input_mode', message')

OtherThanPrompt == <<rlvars, mainvars, ghvars, selvars, mcvars>>

\* lines 65-83: the locals are set up and the first screen is drawn
prompt_secrets_with ==
    /\ prompt_pc = "idle"
    /\ prompt_pc' = "input"
    /\ prompt_secrets' = <<>>
    /\ current_key' = <<>>
    /\ current_value' = <<>>
    /\ input_mode' = "Key"
    /\ message' = <<>>
    /\ Draw
    /\ UNCHANGED <<cursor_pos, prompt_result, terminal, OtherThanPrompt>>
    /\ prompt_event' = "new"

\* prompt_secrets_with is left with `result`: its locals go out of scope
\* and the input screen is gone
Leave(how, result) ==
    /\ prompt_pc' = how
    /\ prompt_result' = result
    /\ prompt_secrets' = <<>>
    /\ current_key' = <<>>
    /\ current_value' = <<>>
    /\ input_mode' = "Key"
    /\ message' = <<>>
    /\ cursor_pos' = 0
    /\ frame' = <<>>

\* lines 99-110: Enter in Key mode
Key_Enter ==
    /\ prompt_pc = "input"
    /\ input_mode = "Key"
    /\ LET valid == validate_secret_key(current_key) IN
       IF valid.tag = "Ok"
       THEN /\ input_mode' = "Value"
            /\ message' = <<>>
       ELSE /\ message' = <<"/!\\  ">> \o valid.chain
            /\ UNCHANGED input_mode
    /\ UNCHANGED <<prompt_pc, prompt_secrets, current_key, current_value>>
    /\ Draw
    /\ UNCHANGED <<cursor_pos, prompt_result, terminal, OtherThanPrompt>>
    /\ prompt_event' = "Enter"

\* a variant of Key_Esc that asks only when a pair was committed
Key_EscBroken ==
    /\ prompt_pc = "input"
    /\ input_mode = "Key"
    /\ IF prompt_secrets # <<>>
       THEN /\ prompt_pc' = "confirm_exit"
            /\ cursor_pos' = 0
            /\ frame' = render_confirm_exit(0)
            /\ UNCHANGED <<prompt_result, prompt_secrets, current_key,
                           current_value, input_mode, message>>
       ELSE Leave("returned", Some(Ok(prompt_secrets)))
    /\ UNCHANGED <<terminal, OtherThanPrompt>>
    /\ prompt_event' = "Esc"

\* lines 111-120: Esc in Key mode either opens the exit dialog or leaves
\* the loop, and line 185 returns the list
Key_Esc ==
    /\ prompt_pc = "input"
    /\ input_mode = "Key"
    /\ IF current_key # <<>> \/ prompt_secrets # <<>>
       THEN /\ prompt_pc' = "confirm_exit"
            /\ cursor_pos' = 0
            /\ frame' = render_confirm_exit(0)
            /\ UNCHANGED <<prompt_result, prompt_secrets, current_key,
                           current_value, input_mode, message>>
       ELSE Leave("returned", Some(Ok(prompt_secrets)))
    /\ UNCHANGED <<terminal, OtherThanPrompt>>
    /\ prompt_event' = "Esc"

\* The key field is explored in two windows of MaxKeyLen characters: above
\* the empty text and above the run of a held key.
KeyRoom == Len(current_key) % MAX_SECRET_KEY_LENGTH < MaxKeyLen
KeyTail ==
    \/ current_key = <<>>
    \/ Len(current_key) % MAX_SECRET_KEY_LENGTH \in 1..MaxKeyLen

\* lines 121-124: a character in Key mode
Key_Char ==
    /\ prompt_pc = "input"
    /\ input_mode = "Key"
    /\ KeyRoom
    /\ \E c \in KeyChars : current_key' = Append(current_key, c)
    /\ message' = <<>>
    /\ UNCHANGED <<prompt_pc, prompt_secrets, current_value, input_mode>>
    /\ Draw
    /\ UNCHANGED <<cursor_pos, prompt_result, terminal, OtherThanPrompt>>
    /\ prompt_event' = "Char"

\* lines 121-124, MAX_SECRET_KEY_LENGTH times in a row: a key is held down
\* in the empty key field and each of its events appends one character
Key_CharHeld ==
    /\ prompt_pc = "input"
    /\ input_mode = "Key"
    /\ current_key = <<>>
    /\ current_key' = repeat(HeldChar, MAX_SECRET_KEY_LENGTH)
    /\ message' = <<>>
    /\ UNCHANGED <<prompt_pc, prompt_secrets, current_value, input_mode>>
    /\ Draw
    /\ UNCHANGED <<cursor_pos, prompt_result, terminal, OtherThanPrompt>>
    /\ prompt_event' = "CharHeld"

\* lines 125-128: Backspace in Key mode
Key_Backspace ==
    /\ prompt_pc = "input"
    /\ input_mode = "Key"
    /\ KeyTail
    /\ current_key' = pop(current_key)
    /\ message' = <<>>
    /\ UNCHANGED <<prompt_pc, prompt_secrets, current_value, input_mode>>
    /\ Draw
    /\ UNCHANGED <<cursor_pos, prompt_result, terminal, OtherThanPrompt>>
    /\ prompt_event' = "Backspace"

\* lines 144-150: the pair replaces an entry of the same key and goes last
\* a variant of Commit that keeps the pair the key had
CommitBroken(secs, key, value) ==
    Append(secs, [key |-> key, value |-> value])

Commit(secs, key, value) ==
    LET Other(pair) == pair.key # key IN
    Append(SelectSeq(secs, Other), [key |-> key, value |-> value])

\* a variant of Value_Enter that refuses only the empty value
Value_EnterBroken ==
    /\ prompt_pc = "input"
    /\ input_mode = "Value"
    /\ IF current_value = <<>>
       THEN /\ message' = <<"/!\\  Value cannot be empty">>
            /\ UNCHANGED <<prompt_secrets, current_key, current_value,
                           input_mode>>
       ELSE /\ Len(Commit(prompt_secrets, current_key, current_value))
                    <= MaxSecretsEntered
            /\ prompt_secrets' =
                    Commit(prompt_secrets, current_key, current_value)
            /\ message' =
                    <<"[ok] Secret '">> \o current_key
                    \o <<IF \E n \in 1..Len(prompt_secrets) :
                                prompt_secrets[n].key = current_key
                         THEN "' updated" ELSE "' added">>
            /\ current_key' = <<>>
            /\ current_value' = <<>>
            /\ input_mode' = "Key"
    /\ UNCHANGED prompt_pc
    /\ Draw
    /\ UNCHANGED <<cursor_pos, prompt_result, terminal, OtherThanPrompt>>
    /\ prompt_event' = "Enter"

\* a variant of Value_Esc that clears the typed key as well
Value_EscBroken ==
    /\ prompt_pc = "input"
    /\ input_mode = "Value"
    /\ current_value' = <<>>
    /\ current_key' = <<>>
    /\ input_mode' = "Key"
    /\ message' = <<>>
    /\ UNCHANGED <<prompt_pc, prompt_secrets>>
    /\ Draw
    /\ UNCHANGED <<cursor_pos, prompt_result, terminal, OtherThanPrompt>>
    /\ prompt_event' = "Esc"

\* lines 134-163: Enter in Value mode
Value_Enter ==
    /\ prompt_pc = "input"
    /\ input_mode = "Value"
    /\ IF trim(current_value) = <<>>
       THEN /\ message' = <<"/!\\  Value cannot be empty">>
            /\ UNCHANGED <<prompt_secrets, current_key, current_value,
                           input_mode>>
       ELSE /\ Len(Commit(prompt_secrets, current_key, current_value))
                    <= MaxSecretsEntered
            /\ prompt_secrets' =
                    Commit(prompt_secrets, current_key, current_value)
            /\ message' =
                    <<"[ok] Secret '">> \o current_key
                    \o <<IF \E n \in 1..Len(prompt_secrets) :
                                prompt_secrets[n].key = current_key
                         THEN "' updated" ELSE "' added">>
            /\ current_key' = <<>>
            /\ current_value' = <<>>
            /\ input_mode' = "Key"
    /\ UNCHANGED prompt_pc
    /\ Draw
    /\ UNCHANGED <<cursor_pos, prompt_result, terminal, OtherThanPrompt>>
    /\ prompt_event' = "Enter"

\* lines 164-169: Esc in Value mode
Value_Esc ==
    /\ prompt_pc = "input"
    /\ input_mode = "Value"
    /\ current_value' = <<>>
    /\ input_mode' = "Key"
    /\ message' = <<>>
    /\ UNCHANGED <<prompt_pc, prompt_secrets, current_key>>
    /\ Draw
    /\ UNCHANGED <<cursor_pos, prompt_result, terminal, OtherThanPrompt>>
    /\ prompt_event' = "Esc"

\* lines 170-173: a character in Value mode
Value_Char ==
    /\ prompt_pc = "input"
    /\ input_mode = "Value"
    /\ Len(current_value) < MaxValueLen
    /\ \E c \in ValueChars : current_value' = Append(current_value, c)
    /\ message' = <<>>
    /\ UNCHANGED <<prompt_pc, prompt_secrets, current_key, input_mode>>
    /\ Draw
    /\ UNCHANGED <<cursor_pos, prompt_result, terminal, OtherThanPrompt>>
    /\ prompt_event' = "Char"

\* lines 174-177: Backspace in Value mode
Value_Backspace ==
    /\ prompt_pc = "input"
    /\ input_mode = "Value"
    /\ current_value' = pop(current_value)
    /\ message' = <<>>
    /\ UNCHANGED <<prompt_pc, prompt_secrets, current_key, input_mode>>
    /\ Draw
    /\ UNCHANGED <<cursor_pos, prompt_result, terminal, OtherThanPrompt>>
    /\ prompt_event' = "Backspace"

\* lines 460-467: the arrow keys of the exit dialog
confirm_exit_Move ==
    /\ prompt_pc = "confirm_exit"
    /\ \E key \in {"Left", "Right"} :
        /\ cursor_pos' = IF key = "Left"
                         THEN (IF cursor_pos = 0 THEN 0 ELSE cursor_pos - 1)
                         ELSE (IF cursor_pos < 1 THEN cursor_pos + 1
                               ELSE cursor_pos)
        /\ prompt_event' = "confirm " \o key
    /\ frame' = render_confirm_exit(cursor_pos')
    /\ UNCHANGED <<prompt_pc, prompt_secrets, current_key, current_value,
                   input_mode, message, prompt_result, terminal,
                   OtherThanPrompt>>

\* lines 468-476: what the exit dialog answers to a key, if anything
confirm_exit_answer(key, pos) ==
    IF key \in {"y", "Enter"} /\ pos = 0 THEN Some(TRUE)
    ELSE IF key \in {"n", "Enter"} THEN Some(FALSE)
    ELSE IF key = "Esc" THEN Some(FALSE)
    ELSE None

\* lines 468-477 and 114-116: a key that may answer the exit dialog; yes
\* leaves the loop and returns the list, no goes back to the input screen
confirm_exit_Key ==
    /\ prompt_pc = "confirm_exit"
    /\ \E key \in {"y", "n", "Enter", "Esc"} :
        LET answer == confirm_exit_answer(key, cursor_pos) IN
        IF answer = None
        THEN UNCHANGED promptvars
        ELSE IF answer[1]
        THEN /\ Leave("returned", Some(Ok(prompt_secrets)))
             /\ prompt_event' = "confirm " \o key
             /\ UNCHANGED terminal
        ELSE /\ prompt_pc' = "input"
             /\ prompt_event' = "confirm " \o key
             /\ cursor_pos' = 0
             /\ frame' = render_secret_input_ui(prompt_secrets, current_key,
                                                current_value, input_mode,
                                                message)
             /\ UNCHANGED <<prompt_result, prompt_secrets, current_key,
                            current_value, input_mode, message, terminal>>
    /\ UNCHANGED OtherThanPrompt

\* lines 86 and 449: read_event fails and `?` returns the error
prompt_ReadError ==
    /\ prompt_pc \in {"input", "confirm_exit"}
    /\ Leave("returned", Some(Err(<<"read_event">>)))
    /\ UNCHANGED <<terminal, OtherThanPrompt>>
    /\ prompt_event' = "error"

\* lines 91-94 and 454-457: Ctrl+C ends the process
prompt_CtrlC ==
    /\ prompt_pc \in {"input", "confirm_exit"}
    /\ Leave("exited", None)
    /\ UNCHANGED <<terminal, OtherThanPrompt>>
    /\ prompt_event' = "CtrlC"

(***************************************************************************)
(* main.rs: what is printed about a pair                                   *)
(***************************************************************************)
RepoDisplays == {<<"alias", " (", "owner/repo", ")">>}
ErrorTexts == {<<"Failed to encrypt secret", " -> ",
                 "Invalid public key length">>}

\* main.rs:74-78, 91-96, 114-120 and 172-176: the lines about one pair
OperationLines(kind, pair, repo, reason) ==
    CASE kind = "skipped" ->
            <<<<"[skip]", " ", "Skipping secret", " ", "'">> \o pair.key
                \o <<"'", " ", "in ">> \o repo>>
      [] kind = "updated" ->
            <<<<"[ok]", " ", "Successfully updated secret", " ", "'">>
                \o pair.key \o <<"'", " ", "in", " ">> \o repo>>
      [] kind = "failed" ->
            <<<<"[x]", " ", "Failed to update secret", " ", "'">>
                \o pair.key \o <<"'", " ", "in", " ">> \o repo,
              <<"  Reason:", " ">> \o reason>>
      [] kind = "listed" ->
            <<<<"  ", "[x]", " ">> \o pair.key \o <<" ", "in ">>
                \o repo \o <<" ", "-> ">> \o reason>>

\* main.rs:65-130 and 170-178: main prints about a pair that the prompt
\* returned
main_PrintOperation ==
    /\ prompt_pc = "returned"
    /\ prompt_result[1].tag = "Ok"
    /\ \E n \in 1..Len(prompt_result[1].value),
          kind \in {"skipped", "updated", "failed", "listed"},
          repo \in RepoDisplays, reason \in ErrorTexts :
        terminal' = OperationLines(kind, prompt_result[1].value[n],
                                   repo, reason)
    /\ UNCHANGED <<prompt_pc, prompt_secrets, current_key, current_value,
                   input_mode, message, cursor_pos, frame, prompt_result,
                   prompt_event, OtherThanPrompt>>

InitPrompt ==
    /\ NoExt
    /\ NoLimiter
    /\ NoRun

NextPrompt ==
    \/ prompt_secrets_with
    \/ Key_Enter
    \/ Key_Esc
    \/ Key_Char
    \/ Key_CharHeld
    \/ Key_Backspace
    \/ Value_Enter
    \/ Value_Esc
    \/ Value_Char
    \/ Value_Backspace
    \/ confirm_exit_Move
    \/ confirm_exit_Key
    \/ prompt_ReadError
    \/ prompt_CtrlC
    \/ main_PrintOperation

SpecPrompt == InitPrompt /\ [][NextPrompt]_vars

(***************************************************************************)
(* prompt.rs: select_repositories_with                                     *)
(***************************************************************************)
\* The Vec<bool> `selected` is the sequence selected[1..len+1]: Rust's
\* selected[i] is selected[i + 1] here, so selected[1] is "Select All".
OtherThanSelection == <<rlvars, mainvars, ghvars, promptvars, mcvars>>

\* lines 661-668: the locals are set up for a list of repositories
select_repositories_with ==
    /\ sel_pc = "idle"
    /\ sel_pc' = "select"
    /\ repositories_len' \in 0..MaxRepositories
    /\ selected' = [i \in 1..(repositories_len' + 1) |-> FALSE]
    /\ list_state' = 0
    /\ sel_event' = "new"
    /\ UNCHANGED <<sel_result, OtherThanSelection>>

\* lines 682-688: Up
Select_Up ==
    /\ sel_pc = "select"
    /\ list_state' = IF list_state > 0 THEN list_state - 1 ELSE list_state
    /\ sel_event' = "Up"
    /\ UNCHANGED <<sel_pc, repositories_len, selected, sel_result,
                   OtherThanSelection>>

\* lines 689-695: Down
Select_Down ==
    /\ sel_pc = "select"
    /\ list_state' = IF list_state < repositories_len THEN list_state + 1
                     ELSE list_state
    /\ sel_event' = "Down"
    /\ UNCHANGED <<sel_pc, repositories_len, selected, sel_result,
                   OtherThanSelection>>

\* selected[1..].iter().all(|&s| s)
all_selected(sel) == \A i \in 2..Len(sel) : sel[i]

\* a variant of Select_Space whose toggle of one repository leaves the
\* "Select All" flag as it was
Select_SpaceBroken ==
    /\ sel_pc = "select"
    /\ IF list_state = 0
       THEN LET new_state == ~all_selected(selected) IN
            selected' = [i \in 1..Len(selected) |-> new_state]
       ELSE selected' = [selected EXCEPT ![list_state + 1] = ~@]
    /\ sel_event' = "Space"
    /\ UNCHANGED <<sel_pc, repositories_len, list_state, sel_result,
                   OtherThanSelection>>

\* lines 696-715: Space toggles "Select All" or the repository under the
\* cursor
Select_Space ==
    /\ sel_pc = "select"
    /\ IF list_state = 0
       THEN LET new_state == ~all_selected(selected) IN
            selected' = [i \in 1..Len(selected) |-> new_state]
       ELSE LET toggled == [selected EXCEPT ![list_state + 1] = ~@] IN
            selected' = [toggled EXCEPT ![1] = all_selected(toggled)]
    /\ sel_event' = "Space"
    /\ UNCHANGED <<sel_pc, repositories_len, list_state, sel_result,
                   OtherThanSelection>>

\* (the positions in `selected`, not shifted back to repository indices)
collect_selectedBroken(sel) ==
    LET Positions == [i \in 1..(Len(sel) - 1) |-> i]
        Chosen(i) == sel[i + 1]
    IN  SelectSeq(Positions, Chosen)

\* lines 728-731: (1..selected.len()).filter(|&i| selected[i]).map(|i| i-1)
collect_selected(sel) ==
    LET Positions == [i \in 1..(Len(sel) - 1) |-> i]
        Chosen(i) == sel[i + 1]
        picked == SelectSeq(Positions, Chosen)
    IN  [n \in 1..Len(picked) |-> picked[n] - 1]

\* lines 716-718 and 727-737: Enter leaves the loop
Select_Enter ==
    /\ sel_pc = "select"
    /\ sel_pc' = "returned"
    /\ sel_result' = IF collect_selected(selected) = <<>>
                     THEN Some(Err(<<"No repositories selected">>))
                     ELSE Some(Ok(collect_selected(selected)))
    /\ sel_event' = "Enter"
    /\ UNCHANGED <<repositories_len, selected, list_state,
                   OtherThanSelection>>

\* lines 719-721: Esc
Select_Esc ==
    /\ sel_pc = "select"
    /\ sel_pc' = "returned"
    /\ sel_result' = Some(Err(<<"Selection cancelled">>))
    /\ sel_event' = "Esc"
    /\ UNCHANGED <<repositories_len, selected, list_state,
                   OtherThanSelection>>

\* line 671: read_event fails and `?` returns the error
Select_ReadError ==
    /\ sel_pc = "select"
    /\ sel_pc' = "returned"
    /\ sel_result' = Some(Err(<<"read_event">>))
    /\ sel_event' = "error"
    /\ UNCHANGED <<repositories_len, selected, list_state,
                   OtherThanSelection>>

\* lines 676-679: Ctrl+C ends the process
Select_CtrlC ==
    /\ sel_pc = "select"
    /\ sel_pc' = "exited"
    /\ sel_event' = "CtrlC"
    /\ UNCHANGED <<repositories_len, selected, list_state, sel_result,
                   OtherThanSelection>>

InitSelect ==
    /\ NoExt
    /\ NoLimiter
    /\ NoRun

NextSelect ==
    \/ select_repositories_with
    \/ Select_Up
    \/ Select_Down
    \/ Select_Space
    \/ Select_Enter
    \/ Select_Esc
    \/ Select_ReadError
    \/ Select_CtrlC

SpecSelect == InitSelect /\ [][NextSelect]_vars

(***************************************************************************)
(* manage_config_with (prompt.rs 1041-1331) and prompt_confirm_with        *)
(* (prompt.rs 845-925)                                                     *)
(***************************************************************************)
\* The characters a key event may carry: one that every field takes and
\* one that only the alias takes.
FieldChars == {"a", " "}

\* The configurations manage_config_with is given: the first 0 to
\* MaxConfigRepositories entries of a file whose first owner is blank
\* (Config::from_file checks no field of an entry).
StoredRepository(k) ==
    [owner |-> IF k = 1 THEN <<" ">> ELSE <<"a">>,
     name |-> <<"a">>,
     alias |-> IF k % 3 = 0 THEN Some(<<"a">>) ELSE None]

StoredRepositories == [k \in 1..MaxConfigRepositories |-> StoredRepository(k)]

InitialConfigs ==
    {SubSeq(StoredRepositories, 1, n) : n \in 0..MaxConfigRepositories}

OtherThanManage == <<rlvars, mainvars, ghvars, promptvars, selvars>>

\* InputState::new_edit(repo, index) (prompt.rs 993-1003)
new_edit(repo, index) ==
    [owner |-> repo.owner, name |-> repo.name,
     alias |-> IF repo.alias = None THEN <<>> ELSE repo.alias[1],
     active_field |-> "Owner", is_edit |-> TRUE, edit_index |-> Some(index),
     error_msg |-> ""]

\* InputState::validate_char (prompt.rs 1005-1012)
validate_char(c, field) ==
    IF field \in {"Owner", "Name"} THEN c # " " ELSE TRUE

\* lines 1046-1052: the locals are set up for the given configuration
manage_config_with ==
    /\ mc_pc = "idle"
    /\ mc_pc' = "run"
    /\ config_repositories' \in InitialConfigs
    /\ mc_list_state' = IF config_repositories' # <<>> THEN Some(0) ELSE None
    /\ app_mode' = "Browsing"
    /\ input_state' = new_add
    /\ mc_event' = "new"
    /\ UNCHANGED <<confirm_pos, mc_result, OtherThanManage>>

\* the function is left: its locals are dropped
mc_Leave(how, result) ==
    /\ mc_pc' = how
    /\ mc_result' = result
    /\ mc_list_state' = None
    /\ app_mode' = "Browsing"
    /\ input_state' = new_add
    /\ confirm_pos' = 0
    /\ UNCHANGED config_repositories

Browsing == mc_pc = "run" /\ app_mode = "Browsing"

\* line 1185: q or Esc returns the configuration
Browsing_Quit ==
    /\ Browsing
    /\ \E key \in {"q", "Esc"} : mc_event' = "Browsing " \o key
    /\ mc_Leave("returned", Some(Ok(Some(config_repositories))))
    /\ UNCHANGED OtherThanManage

\* lines 1186-1200: Up wraps from the first entry to the last
Browsing_Up ==
    /\ Browsing
    /\ mc_event' = "Browsing Up"
    /\ IF config_repositories # <<>>
       THEN mc_list_state' =
                IF mc_list_state = None THEN Some(0)
                ELSE IF mc_list_state[1] = 0
                     THEN Some(Len(config_repositories) - 1)
                     ELSE Some(mc_list_state[1] - 1)
       ELSE UNCHANGED mc_list_state
    /\ UNCHANGED <<mc_pc, config_repositories, app_mode, input_state,
                   confirm_pos, mc_result, OtherThanManage>>

\* lines 1201-1215: Down wraps from the last entry to the first
Browsing_Down ==
    /\ Browsing
    /\ mc_event' = "Browsing Down"
    /\ IF config_repositories # <<>>
       THEN mc_list_state' =
                IF mc_list_state = None THEN Some(0)
                ELSE IF mc_list_state[1] >= Len(config_repositories) - 1
                     THEN Some(0)
                     ELSE Some(mc_list_state[1] + 1)
       ELSE UNCHANGED mc_list_state
    /\ UNCHANGED <<mc_pc, config_repositories, app_mode, input_state,
                   confirm_pos, mc_result, OtherThanManage>>

\* lines 1216-1219: a opens the input dialog for a new entry
Browsing_Add ==
    /\ Browsing
    /\ mc_event' = "Browsing a"
    /\ input_state' = new_add
    /\ app_mode' = "Input"
    /\ UNCHANGED <<mc_pc, config_repositories, mc_list_state, confirm_pos,
                   mc_result, OtherThanManage>>

\* lines 1220-1227: e or Enter opens the input dialog on the entry under
\* the cursor; config.repositories[i] panics when i is not an index
Browsing_Edit ==
    /\ Browsing
    /\ \E key \in {"e", "Enter"} : mc_event' = "Browsing " \o key
    /\ IF mc_list_state # None /\ config_repositories # <<>>
       THEN LET i == mc_list_state[1] IN
            IF i < Len(config_repositories)
            THEN /\ input_state' = new_edit(config_repositories[i + 1], i)
                 /\ app_mode' = "Input"
                 /\ UNCHANGED mc_pc
            ELSE /\ mc_pc' = "panicked"
                 /\ UNCHANGED <<input_state, app_mode>>
       ELSE UNCHANGED <<mc_pc, input_state, app_mode>>
    /\ UNCHANGED <<config_repositories, mc_list_state, confirm_pos,
                   mc_result, OtherThanManage>>

\* lines 1228-1236: d on an entry opens prompt_confirm_with (line 850: its
\* cursor starts on Yes)
Browsing_Delete ==
    /\ Browsing
    /\ mc_event' = "Browsing d"
    /\ IF mc_list_state # None /\ config_repositories # <<>>
       THEN /\ mc_pc' = "confirm"
            /\ confirm_pos' = 0
       ELSE UNCHANGED <<mc_pc, confirm_pos>>
    /\ UNCHANGED <<config_repositories, mc_list_state, app_mode,
                   input_state, mc_result, OtherThanManage>>

\* prompt_confirm_with, lines 903-910: Left/Up and Right/Down move its
\* cursor
prompt_confirm_Move ==
    /\ mc_pc = "confirm"
    /\ \E key \in {"Left", "Right"} :
        /\ confirm_pos' = IF key = "Left"
                          THEN (IF confirm_pos = 0 THEN 0
                                ELSE confirm_pos - 1)
                          ELSE (IF confirm_pos < 1 THEN confirm_pos + 1
                                ELSE confirm_pos)
        /\ mc_event' = "confirm " \o key
    /\ UNCHANGED <<mc_pc, config_repositories, mc_list_state, app_mode,
                   input_state, mc_result, OtherThanManage>>

\* prompt_confirm_with, lines 911-919: the answer a key gives, if any; the
\* guard `if cursor_pos == 0` covers y, Y and Enter alike
prompt_confirm_answer(key, pos) ==
    IF key \in {"y", "Enter"} /\ pos = 0 THEN Some(TRUE)
    ELSE IF key \in {"n", "Enter"} THEN Some(FALSE)
    ELSE IF key = "Esc" THEN Some(FALSE)
    ELSE None

\* line 1238: config.repositories.remove(i), i counted from 0
remove(repos, i) ==
    SubSeq(repos, 1, i) \o SubSeq(repos, i + 2, Len(repos))

\* a variant of select_after_remove that keeps the cursor where it was
select_after_removeBroken(repos, i, state) ==
    IF repos = <<>> THEN None ELSE state

\* lines 1239-1243: the cursor after entry i was removed, `repos` being the
\* list that is left
select_after_remove(repos, i, state) ==
    IF repos = <<>> THEN None
    ELSE IF i >= Len(repos) THEN Some(Len(repos) - 1)
    ELSE state

\* lines 1231-1246: a key that answers the dialog; on yes the entry under
\* the cursor is removed (remove(i) panics when i is not an index)
prompt_confirm_Key ==
    /\ mc_pc = "confirm"
    /\ \E key \in {"y", "n", "Enter", "Esc"} :
        LET answer == prompt_confirm_answer(key, confirm_pos)
            i == mc_list_state[1]
        IN
        IF answer = None
        THEN UNCHANGED mcvars
        ELSE /\ mc_event' = "confirm " \o key
             /\ confirm_pos' = 0
             /\ IF answer[1]
                THEN IF i < Len(config_repositories)
                     THEN /\ config_repositories' =
                                remove(config_repositories, i)
                          /\ mc_list_state' =
                                select_after_remove(config_repositories',
                                                    i, mc_list_state)
                          /\ mc_pc' = "run"
                     ELSE /\ mc_pc' = "panicked"
                          /\ UNCHANGED <<config_repositories,
                                         mc_list_state>>
                ELSE /\ mc_pc' = "run"
                     /\ UNCHANGED <<config_repositories, mc_list_state>>
             /\ UNCHANGED <<app_mode, input_state, mc_result>>
    /\ UNCHANGED OtherThanManage

InputDialog == mc_pc = "run" /\ app_mode = "Input"

\* lines 1252-1255: Esc closes the input dialog
Input_Esc ==
    /\ InputDialog
    /\ mc_event' = "Input Esc"
    /\ app_mode' = "Browsing"
    /\ UNCHANGED <<mc_pc, config_repositories, mc_list_state, input_state,
                   confirm_pos, mc_result, OtherThanManage>>

\* lines 1256-1262: Tab moves to the next field
Input_Tab ==
    /\ InputDialog
    /\ mc_event' = "Input Tab"
    /\ input_state' =
        [input_state EXCEPT !.active_field =
            CASE @ = "Owner" -> "Name"
              [] @ = "Name"  -> "Alias"
              [] @ = "Alias" -> "Owner"]
    /\ UNCHANGED <<mc_pc, config_repositories, mc_list_state, app_mode,
                   confirm_pos, mc_result, OtherThanManage>>

\* lines 1263-1270: BackTab moves to the previous field
Input_BackTab ==
    /\ InputDialog
    /\ mc_event' = "Input BackTab"
    /\ input_state' =
        [input_state EXCEPT !.active_field =
            CASE @ = "Owner" -> "Alias"
              [] @ = "Name"  -> "Owner"
              [] @ = "Alias" -> "Name"]
    /\ UNCHANGED <<mc_pc, config_repositories, mc_list_state, app_mode,
                   confirm_pos, mc_result, OtherThanManage>>

\* a variant of input_error that accepts every text that is not empty
input_errorBroken(state) ==
    IF state.owner = <<>> THEN "Owner is required"
    ELSE IF state.name = <<>> THEN "Name is required"
    ELSE ""

\* lines 1272-1275: what Enter finds wrong with the dialog, "" if nothing
input_error(state) ==
    IF trim(state.owner) = <<>> THEN "Owner is required"
    ELSE IF trim(state.name) = <<>> THEN "Name is required"
    ELSE ""

\* lines 1278-1286: the entry the dialog describes
new_repo(state) ==
    [owner |-> trim(state.owner), name |-> trim(state.name),
     alias |-> IF trim(state.alias) = <<>> THEN None
               ELSE Some(trim(state.alias))]

\* lines 1271-1299: Enter saves the entry, in place for an edit and at the
\* end for an addition (config.repositories[idx] panics when idx is not an
\* index)
Input_Enter ==
    /\ InputDialog
    /\ mc_event' = "Input Enter"
    /\ IF input_error(input_state) # ""
       THEN /\ input_state' =
                [input_state EXCEPT !.error_msg = input_error(input_state)]
            /\ UNCHANGED <<mc_pc, config_repositories, mc_list_state,
                           app_mode>>
       ELSE IF input_state.edit_index # None
       THEN LET idx == input_state.edit_index[1] IN
            IF idx < Len(config_repositories)
            THEN /\ config_repositories' =
                    [config_repositories EXCEPT ![idx + 1] =
                        new_repo(input_state)]
                 /\ app_mode' = "Browsing"
                 /\ UNCHANGED <<mc_pc, mc_list_state, input_state>>
            ELSE /\ mc_pc' = "panicked"
                 /\ UNCHANGED <<config_repositories, mc_list_state,
                                app_mode, input_state>>
       ELSE /\ Len(config_repositories) < MaxConfigRepositories
            /\ config_repositories' =
                    Append(config_repositories, new_repo(input_state))
            /\ mc_list_state' = Some(Len(config_repositories') - 1)
            /\ app_mode' = "Browsing"
            /\ UNCHANGED <<mc_pc, input_state>>
    /\ UNCHANGED <<confirm_pos, mc_result, OtherThanManage>>

\* lines 1301-1311: Backspace pops the active field
Input_Backspace ==
    /\ InputDialog
    /\ mc_event' = "Input Backspace"
    /\ input_state' =
        CASE input_state.active_field = "Owner" ->
                [input_state EXCEPT !.owner = pop(@)]
          [] input_state.active_field = "Name" ->
                [input_state EXCEPT !.name = pop(@)]
          [] input_state.active_field = "Alias" ->
                [input_state EXCEPT !.alias = pop(@)]
    /\ UNCHANGED <<mc_pc, config_repositories, mc_list_state, app_mode,
                   confirm_pos, mc_result, OtherThanManage>>

\* the text of the active field
ActiveText ==
    CASE input_state.active_field = "Owner" -> input_state.owner
      [] input_state.active_field = "Name" -> input_state.name
      [] input_state.active_field = "Alias" -> input_state.alias

\* lines 1312-1324: a character the field accepts is pushed and clears the
\* error; another sets the error
Input_Char ==
    /\ InputDialog
    /\ mc_event' = "Input Char"
    /\ \E c \in FieldChars :
        IF validate_char(c, input_state.active_field)
        THEN /\ Len(ActiveText) < MaxFieldLen
             /\ input_state' =
                 CASE input_state.active_field = "Owner" ->
                        [input_state EXCEPT !.owner = Append(@, c),
                                            !.error_msg = ""]
                   [] input_state.active_field = "Name" ->
                        [input_state EXCEPT !.name = Append(@, c),
                                            !.error_msg = ""]
                   [] input_state.active_field = "Alias" ->
                        [input_state EXCEPT !.alias = Append(@, c),
                                            !.error_msg = ""]
        ELSE input_state' =
                [input_state EXCEPT !.error_msg = "Invalid character"]
    /\ UNCHANGED <<mc_pc, config_repositories, mc_list_state, app_mode,
                   confirm_pos, mc_result, OtherThanManage>>

\* lines 1175 and 895: read_event fails and `?` returns the error
mc_ReadError ==
    /\ mc_pc \in {"run", "confirm"}
    /\ mc_event' = "error"
    /\ mc_Leave("returned", Some(Err(<<"read_event">>)))
    /\ UNCHANGED OtherThanManage

\* lines 899-902: Ctrl+C in prompt_confirm_with ends the process
prompt_confirm_CtrlC ==
    /\ mc_pc = "confirm"
    /\ mc_event' = "CtrlC"
    /\ mc_Leave("exited", None)
    /\ UNCHANGED OtherThanManage

InitManage ==
    /\ NoExt
    /\ NoLimiter
    /\ NoRun

NextManage ==
    \/ manage_config_with
    \/ Browsing_Quit
    \/ Browsing_Up
    \/ Browsing_Down
    \/ Browsing_Add
    \/ Browsing_Edit
    \/ Browsing_Delete
    \/ prompt_confirm_Move
    \/ prompt_confirm_Key
    \/ Input_Esc
    \/ Input_Tab
    \/ Input_BackTab
    \/ Input_Enter
    \/ Input_Backspace
    \/ Input_Char
    \/ mc_ReadError
    \/ prompt_confirm_CtrlC

SpecManage == InitManage /\ [][NextManage]_vars

(***************************************************************************)
(* Claims about the RateLimiter, checked under SpecRL                      *)
(***************************************************************************)

\* C1: every completed acquire leaves inFlight <= maxConcurrent and the
\* number of recorded timestamps inside the trailing window <= maxPerWindow,
\* whatever limits the limiter was constructed with.
C1_AcquireKeepsLimits ==
    rl_event = "acquired" =>
        /\ current_concurrent <= max_concurrent
        /\ CountInWindow(request_times, clock, window) <= max_requests_per_hour

\* C2: while inFlight >= maxConcurrent no step records a timestamp or
\* increments inFlight (a pending acquire does not complete), and inFlight
\* goes down only by a release.
C2_NoAcquireAtConcurrentLimit ==
    [][ /\ current_concurrent >= max_concurrent =>
            /\ current_concurrent' <= current_concurrent
            /\ Len(request_times') <= Len(request_times)
            /\ rl_event' # "acquired"
        /\ current_concurrent' < current_concurrent => rl_event' = "released"
      ]_vars

\* a caller has slept in the loop with every slot held and is still held back
C2_Witness ==
    /\ rl_pc = "poll_sleep"
    /\ max_concurrent > 0
    /\ current_concurrent = max_concurrent
    /\ clock >= rl_wake

\* C3: an acquire that waits because inFlight >= maxConcurrent does not block
\* the holders: release can be called while it waits.
C3_ReleaseWhileWaiting ==
    (/\ rl_pc = "poll_sleep"
     /\ max_requests_per_hour > 0
     /\ current_concurrent > 0
     /\ current_concurrent >= max_concurrent) => ENABLED release

\* C4: an acquire that found maxPerWindow or more timestamps after its first
\* prune does not record its request before the oldest of them is `window`
\* old, and by then it has pruned again: that timestamp, and any as old, is
\* gone from the list it appends to.
C4_WaitsForOldest ==
    [][ (/\ rl_pc = "record"
         /\ rl_event' = "acquired"
    /\ UNCHANGED mainvars
         /\ rl_full
         /\ rl_oldest # <<>>)
        => /\ clock >= rl_oldest[1] + window
           /\ \A i \in 1..Len(request_times) : request_times[i] > rl_oldest[1]
           /\ request_times' = Append(request_times, clock)
      ]_vars

\* an acquire at the hourly limit has slept the window out and pruned again
C4_Witness ==
    /\ rl_pc = "record"
    /\ rl_full
    /\ rl_oldest # <<>>
    /\ window > 0
    /\ clock >= rl_oldest[1] + window

\* C5: release takes exactly one from inFlight when it is positive and
\* leaves it 0 when it is 0; timestamps and limits are untouched.
C5_ReleaseClamps ==
    [][ rl_event' = "released" =>
          /\ current_concurrent' =
                (IF current_concurrent > 0 THEN current_concurrent - 1 ELSE 0)
          /\ current_concurrent' >= 0
          /\ request_times' = request_times
          /\ Limits' = Limits
      ]_vars

\* release was called with nothing in flight (no acquire has completed: the
\* clock has not moved and nothing is recorded) and inFlight is still 0
C5_Witness ==
    /\ rl_event = "released"
    /\ current_concurrent = 0
    /\ request_times = <<>>
    /\ clock = 0
    /\ window > 0

(***************************************************************************)
(* Claims about the run of main, checked under Spec                        *)
(***************************************************************************)

Last(seq) == seq[Len(seq)]

\* the step made this call and got this answer
Called(op, pass, res) ==
    /\ last_call' # None
    /\ last_call'[1].op = op
    /\ last_call'[1].pass = pass
    /\ last_call'[1].res = res

\* the pairs of the run in the order the inputs give: repository by
\* repository as selected, and inside a repository secret by secret
NumPairs == Len(selected_indices) * Len(secrets)
PairAt(n) ==
    [repo |-> selected_indices[((n - 1) \div Len(secrets)) + 1],
     key  |-> secrets[((n - 1) % Len(secrets)) + 1].key]

\* the call is on the n-th pair
CallIsFor(call, n) ==
    /\ n \in 1..NumPairs
    /\ call.repo = PairAt(n).repo
    /\ call.key = PairAt(n).key

\* the result is the one of the n-th pair
ResultIsFor(result, n) ==
    /\ n \in 1..NumPairs
    /\ result.secret_name = PairAt(n).key
    /\ result.repository = display_name(repositories[PairAt(n).repo])

FirstPassRunning ==
    pc \in {"start", "new_client", "get_secret_info", "confirm_secret_update",
            "update_secret"}

\* what follows the n-th pair: the next pair, or the summary after the last
ContinuesAfter(n) ==
    IF n < NumPairs THEN pc' \in {"get_secret_info", "new_client"}
                    ELSE pc' = "summary"

\* C6: in the first pass the pairs are called on and recorded in exactly the
\* order selected repositories x requested secrets: every call to the remote
\* service is on the first pair not yet recorded, results are appended one at
\* a time, the n-th result is the n-th pair's, and a first pass that ends has
\* recorded all of them.
C6_FirstPassOrder ==
    /\ [](/\ Len(all_results) <= NumPairs
          /\ \A n \in 1..Len(all_results) : ResultIsFor(all_results[n], n)
          /\ (~FirstPassRunning /\ pc # "done_err") =>
                Len(all_results) = NumPairs)
    /\ [][ /\ \A op \in {"get_secret_info", "update_secret"},
                 res \in {"Ok", "Err", "None", "Some"} :
                 Called(op, 1, res) =>
                    CallIsFor(last_call'[1], Len(all_results) + 1)
           /\ FirstPassRunning =>
                 \/ all_results' = all_results
                 \/ /\ Len(all_results') = Len(all_results) + 1
                    /\ SubSeq(all_results', 1, Len(all_results)) = all_results
         ]_vars

\* a first pass over two repositories with two secrets each has ended
C6_Witness ==
    /\ pc = "summary"
    /\ Len(selected_indices) = 2
    /\ Len(secrets) = 2
    /\ Len(all_results) = 4
    /\ Len(update_log) >= 3

\* C7: an update_secret error does not abort the run: the step records the
\* failure with the error for that pair and goes on to the next pair (the
\* summary after the last), and a first pass that has ended holds exactly one
\* result per pair.
C7_UpdateErrorRecorded ==
    /\ [][ Called("update_secret", 1, "Err") =>
             LET e == last_call'[1]
                 n == Len(all_results) + 1
             IN  /\ CallIsFor(e, n)
                 /\ all_results' = Append(all_results,
                        UpdateResult(e.key, display_name(repositories[e.repo]),
                            FALSE, Some(detailed_error(UpdateErrorChain))))
                 /\ ResultIsFor(Last(all_results'), n)
                 /\ ContinuesAfter(n)
         ]_vars
    /\ [](pc \in {"summary", "confirm_retry"} =>
             /\ Len(all_results) = NumPairs
             /\ \A n \in 1..NumPairs : ResultIsFor(all_results[n], n))

\* the first pair's update failed, a later pair was attempted and the pass
\* ended with every pair recorded
C7_Witness ==
    /\ pc = "summary"
    /\ NumPairs >= 2
    /\ Len(all_results) = NumPairs
    /\ ~all_results[1].success
    /\ all_results[1].error = Some(detailed_error(UpdateErrorChain))
    /\ Len(update_log) >= 2
    /\ update_log[1].res = "Err"

\* C8: a get_secret_info error is recorded as a failure of that pair, no
\* update_secret follows for the pair, and the run goes on to the next pair.
C8_LookupErrorRecorded ==
    [][ Called("get_secret_info", 1, "Err") =>
          LET n == Len(all_results) + 1
          IN  /\ Len(all_results') = n
              /\ ResultIsFor(Last(all_results'), n)
              /\ ~Last(all_results').success
              /\ Last(all_results').error # None
              /\ update_log' = update_log
              /\ ContinuesAfter(n)
      ]_vars

\* C9: a failure to build the client of a repository records one failure per
\* requested secret of that repository, and the run goes on to the next
\* selected repository.
C9_FactoryErrorRecorded ==
    [][ Called("GitHubClient::new", 1, "Err") =>
          /\ Len(all_results') = Len(all_results) + Len(secrets)
          /\ \A n \in (Len(all_results) + 1)..Len(all_results') :
                ~all_results'[n].success /\ ResultIsFor(all_results'[n], n)
          /\ pc' \in {"new_client", "summary"}
      ]_vars

\* C10: when the secret exists and the user declines, the step records
\* exactly one failure with the fixed reason for that pair and goes on to
\* the next pair, and update_secret is never called for the pair, in
\* either pass.
C10_DeclineRecorded ==
    /\ [][ Called("confirm_secret_update", 1, "false") =>
             LET e == last_call'[1]
                 n == Len(all_results) + 1
             IN  /\ CallIsFor(e, n)
                 /\ last_call # None
                 /\ last_call[1].op = "get_secret_info"
                 /\ last_call[1].res = "Some"
                 /\ all_results' = Append(all_results,
                        UpdateResult(e.key, display_name(repositories[e.repo]),
                            FALSE, Some(<<"User declined to overwrite">>)))
                 /\ ResultIsFor(Last(all_results'), n)
                 /\ update_log' = update_log
                 /\ <<e.repo, e.key>> \in declined'
                 /\ ContinuesAfter(n)
         ]_vars
    /\ [](\A u \in 1..Len(update_log) :
             <<update_log[u].repo, update_log[u].key>> \notin declined)

\* the user declined a pair, a later pair's update failed and was retried
C10_Witness ==
    /\ pc = "done_ok"
    /\ declined # {}
    /\ Len(all_results) >= 2
    /\ all_results[1].error = Some(<<"User declined to overwrite">>)
    /\ \E u \in 1..Len(update_log) : update_log[u].pass = 2

\* the positions in `log` of the update_secret calls on this pair
UpdatesIn(log, repo, key) ==
    {u \in 1..Len(log) : log[u].repo = repo /\ log[u].key = key}

\* the last step was this call with this answer
WasCalled(op, pass, res) ==
    /\ last_call # None
    /\ last_call[1].op = op
    /\ last_call[1].pass = pass
    /\ last_call[1].res = res

\* C11: when get_secret_info answers None for a pair, the very next call is
\* the pair's update_secret (the overwrite prompt is never consulted for
\* it), that call is the pair's only one of the first pass, and if it
\* succeeds the step appends exactly one result {secret_name = key,
\* repository = display name, success = true, error = None}; a pair whose
\* first-pass update succeeded has exactly one update_secret call in the
\* whole run.  The overwrite prompt is consulted only right after a lookup
\* of the same pair that answered Some.
C11_AbsentSecretUpdatedOnce ==
    /\ [][ /\ WasCalled("get_secret_info", 1, "None") =>
                LET l == last_call[1]
                IN  /\ last_call' # None
                    /\ last_call'[1].op = "update_secret"
                    /\ last_call'[1].pass = 1
                    /\ last_call'[1].repo = l.repo
                    /\ last_call'[1].key = l.key
                    /\ update_log' = Append(update_log, last_call'[1])
                    /\ UpdatesIn(update_log, l.repo, l.key) = {}
                    /\ last_call'[1].res = "Ok" =>
                          all_results' = Append(all_results,
                              UpdateResult(l.key,
                                  display_name(repositories[l.repo]),
                                  TRUE, None))
                    /\ last_call'[1].res = "Err" =>
                          /\ Len(all_results') = Len(all_results) + 1
                          /\ ~Last(all_results').success
           /\ \A res \in {"true", "false", "Err"} :
                Called("confirm_secret_update", 1, res) =>
                    /\ WasCalled("get_secret_info", 1, "Some")
                    /\ last_call'[1].repo = last_call[1].repo
                    /\ last_call'[1].key = last_call[1].key
         ]_vars
    /\ [](\A u \in 1..Len(update_log) :
            (update_log[u].pass = 1 /\ update_log[u].res = "Ok") =>
                UpdatesIn(update_log, update_log[u].repo,
                          update_log[u].key) = {u})

\* the lookup of a pair answered None and the pair's one update_secret has
\* succeeded and is recorded as the one result of the run so far
C11_Witness ==
    /\ WasCalled("update_secret", 1, "Ok")
    /\ last_info = Some("None")
    /\ all_results = <<UpdateResult(last_call[1].key,
                           display_name(repositories[last_call[1].repo]),
                           TRUE, None)>>
    /\ update_log = <<last_call[1]>>

\* C12: with no secrets entered the run builds no client, calls neither
\* get_secret_info nor update_secret, offers no retry, records no result
\* (the counts are 0 and 0) and ends with Ok after its one step.
C12_NoSecretsNoCalls ==
    /\ [](secrets = <<>> =>
            /\ last_call = None
            /\ update_log = <<>>
            /\ all_results = <<>>
            /\ all_failed_secrets = <<>>
            /\ success_count(all_results) = 0
            /\ failure_count(all_results) = 0
            /\ pc \in {"start", "done_ok"})
    /\ [][ (secrets = <<>> /\ pc = "start") => pc' = "done_ok" ]_vars

\* a run without secrets has ended
C12_Witness ==
    /\ secrets = <<>>
    /\ pc = "done_ok"
    /\ all_results = <<>>
    /\ last_call = None

\* C13: every get_secret_info call of the first pass is made with the pair's
\* acquire completed (one request in flight, one timestamp recorded per
\* pair begun), and the pair's one release has brought inFlight back to 0
\* whenever the run is between two pairs or has ended.
C13_LimiterAroundEachPair ==
    /\ [][ \A res \in {"Err", "None", "Some"} :
              Called("get_secret_info", 1, res) =>
                 /\ current_concurrent = 1
                 /\ Len(request_times) = Len(all_results) + 1
         ]_vars
    /\ [](pc \in {"get_secret_info", "new_client", "summary", "confirm_retry",
                  "done_ok"} => current_concurrent = 0)

\* the first pass has ended with every pair looked up and no request ever
\* counted by a limiter
C13_Witness ==
    /\ pc = "summary"
    /\ Len(all_results) = NumPairs
    /\ NumPairs >= 2
    /\ request_times = <<>>
    /\ current_concurrent = 0
    /\ rl_event = "new"

RetryPassRunning == pc \in {"retry_new_client", "retry_update_secret"}

\* C14: every call of the retry pass is the construction of a client or an
\* update_secret, never get_secret_info and never the overwrite prompt; the
\* pass goes through all_failed_secrets in order and, once the client of a
\* failed pair is built, the next call is update_secret on exactly that
\* pair.
C14_RetryUpdatesDirectly ==
    [][ /\ RetryPassRunning =>
              /\ last_call' # None
              /\ last_call'[1].op \in {"GitHubClient::new", "update_secret"}
              /\ last_call'[1].op \notin {"get_secret_info",
                                          "confirm_secret_update"}
              /\ <<last_info, secret_info, declined>>' =
                    <<last_info, secret_info, declined>>
              /\ fi \in 1..Len(all_failed_secrets)
              /\ last_call'[1].repo = all_failed_secrets[fi][1]
        /\ Called("confirm_retry", 2, "true") =>
              /\ all_failed_secrets # <<>> => (pc' = "retry_new_client" /\ fi' = 1)
              /\ all_failed_secrets = <<>> => pc' = "done_ok"
        /\ (pc = "retry_new_client" /\ Called("GitHubClient::new", 2, "Ok")) =>
              /\ pc' = "retry_update_secret"
              /\ fi' = fi
              /\ update_log' = update_log
        /\ pc = "retry_update_secret" =>
              /\ WasCalled("GitHubClient::new", 2, "Ok")
              /\ last_call'[1].op = "update_secret"
              /\ last_call'[1].key = all_failed_secrets[fi][2].key
              /\ update_log' = Append(update_log, last_call'[1])
              /\ IF fi < Len(all_failed_secrets)
                 THEN pc' = "retry_new_client" /\ fi' = fi + 1
                 ELSE pc' = "done_ok"
      ]_vars

\* the retry pass has called update_secret on two failed pairs, one after
\* the other
C14_Witness ==
    /\ pc = "done_ok"
    /\ Len(all_failed_secrets) = 2
    /\ Len(update_log) >= 4
    /\ update_log[Len(update_log) - 1].pass = 2
    /\ Last(update_log).pass = 2
    /\ WasCalled("update_secret", 2, "Ok")

\* the update_secret calls of one pass, in call order
PassCalls(log, pass) ==
    LET InPass(c) == c.pass = pass
    IN  SelectSeq(log, InPass)

\* the position of a pair in the order of the first pass
PairIndex(repo, key) ==
    CHOOSE n \in 1..NumPairs : PairAt(n).repo = repo /\ PairAt(n).key = key

\* the retry pass is never entered twice and never turns back
C15_OnePass ==
    [][ (RetryPassRunning \/ pc \in {"done_ok", "done_err"}) =>
            /\ pc' \in {"retry_new_client", "retry_update_secret",
                        "done_ok", "done_err"}
            /\ RetryPassRunning' => fi' >= fi
            /\ all_failed_secrets' = all_failed_secrets
      ]_vars

\* the k-th call of the retry pass is on the k-th failed pair, the failed
\* pairs are distinct, and no pair has more than two calls
C15_AtMostTwoCalls ==
    LET retried == PassCalls(update_log, 2)
    IN  /\ Len(retried) <= Len(all_failed_secrets)
        /\ \A k \in 1..Len(retried) :
              /\ retried[k].repo = all_failed_secrets[k][1]
              /\ retried[k].key = all_failed_secrets[k][2].key
        /\ \A j, k \in 1..Len(all_failed_secrets) :
              (/\ all_failed_secrets[j][1] = all_failed_secrets[k][1]
               /\ all_failed_secrets[j][2].key = all_failed_secrets[k][2].key)
              => j = k
        /\ \A u \in 1..Len(update_log) :
              Cardinality(UpdatesIn(update_log, update_log[u].repo,
                                    update_log[u].key)) <= 2

\* a pair whose first update failed and whose retry succeeded has had
\* exactly two calls, and at the end of the run its result is a success
C15_RetriedEndsAsSuccess ==
    pc = "done_ok" =>
        \A u, v \in 1..Len(update_log) :
            LET c == update_log[u]
                d == update_log[v]
            IN  (/\ c.pass = 1 /\ c.res = "Err"
                 /\ d.pass = 2 /\ d.res = "Ok"
                 /\ d.repo = c.repo /\ d.key = c.key)
                => /\ UpdatesIn(update_log, c.repo, c.key) = {u, v}
                   /\ all_results[PairIndex(c.repo, c.key)].success
                   /\ all_results[PairIndex(c.repo, c.key)].error = None

\* C15: the retry pass runs at most once in a run and calls update_secret
\* at most once on each failed pair, so no pair gets more than two
\* update_secret calls; a pair whose first update failed and whose retry
\* succeeded has had exactly two and ends the run as one success.
C15_OneRetryPass ==
    /\ C15_OnePass
    /\ []C15_AtMostTwoCalls
    /\ []C15_RetriedEndsAsSuccess

\* C16: when the retry's update_secret on a failed pair succeeds, the result
\* entry of that pair is a success with no error after the step, and no
\* step of the retry pass changes the length of the result list.
C16_RetrySuccessSupersedes ==
    [][ /\ Called("update_secret", 2, "Ok") =>
              LET e == last_call'[1]
                  n == PairIndex(e.repo, e.key)
              IN  /\ ResultIsFor(all_results[n], n)
                  /\ all_results'[n].success
                  /\ all_results'[n].error = None
        /\ RetryPassRunning => Len(all_results') = Len(all_results)
      ]_vars

\* the retry of a pair has succeeded and the result recorded for the pair
\* in the first pass is still the failure
C16_Witness ==
    /\ WasCalled("update_secret", 2, "Ok")
    /\ LET n == PairIndex(last_call[1].repo, last_call[1].key)
       IN  /\ ~all_results[n].success
           /\ all_results[n].error = Some(detailed_error(UpdateErrorChain))
    /\ Len(all_results) = NumPairs

\* the n-th entry of the result list is left as it is by the step
EntryKept(n) == Len(all_results') >= n /\ all_results'[n] = all_results[n]

\* (C17 as stated) no step changes an entry that is already in the result
\* list: a step, of the retry pass too, leaves the list alone or appends.
C17_NeverMutated ==
    [][ \A n \in 1..Len(all_results) : EntryKept(n) ]_vars

\* C17: outside the retry pass a step only appends: the entries already in
\* the result list stay as they are.  The retry pass never appends and
\* never removes: a failed retry leaves the list as it is, and a successful
\* retry rewrites in place at most one entry, the first one with the
\* retried secret's name and repository display name, setting success =
\* true and error = None and keeping its secret_name and repository.
C17_OnlyRetryRewrites ==
    [][ /\ ~RetryPassRunning => \A n \in 1..Len(all_results) : EntryKept(n)
        /\ RetryPassRunning =>
              /\ Len(all_results') = Len(all_results)
              /\ ~Called("update_secret", 2, "Ok") =>
                    all_results' = all_results
              /\ Called("update_secret", 2, "Ok") =>
                    LET e == last_call'[1]
                        hit(n) ==
                          /\ all_results[n].secret_name = e.key
                          /\ all_results[n].repository =
                                display_name(repositories[e.repo])
                    IN  \A n \in 1..Len(all_results) :
                          IF hit(n) /\ \A m \in 1..(n - 1) : ~hit(m)
                          THEN all_results'[n] =
                                 UpdateResult(all_results[n].secret_name,
                                              all_results[n].repository,
                                              TRUE, None)
                          ELSE EntryKept(n)
      ]_vars

\* the one update of the run failed, its retry succeeded, and the entry
\* recorded as a failure in the first pass is now the success
C17_Witness ==
    /\ WasCalled("update_secret", 2, "Ok")
    /\ Len(update_log) = 2
    /\ update_log[1].res = "Err"
    /\ Len(all_results) = 1
    /\ all_results[1].success
    /\ all_results[1].error = None

\* C18: a pair whose overwrite the user declined is never queued for the
\* retry, so the retry pass, entered because the user confirmed the retry,
\* never calls update_secret on a pair whose first-pass result is the
\* declined failure; only pairs whose first-pass update_secret failed are
\* retried.
C18_DeclinedNotRetried ==
    /\ [](\A k \in 1..Len(all_failed_secrets) :
            LET f == all_failed_secrets[k]
            IN  /\ <<f[1], f[2].key>> \notin declined
                /\ \E u \in 1..Len(update_log) :
                      update_log[u] = Call("update_secret", f[1], f[2].key,
                                           1, "Err"))
    /\ [][ /\ Called("confirm_secret_update", 1, "false") =>
                all_failed_secrets' = all_failed_secrets
          /\ \A res \in {"Ok", "Err"} :
                Called("update_secret", 2, res) =>
                   LET e == last_call'[1]
                   IN  /\ <<e.repo, e.key>> \notin declined
                       /\ all_results[PairIndex(e.repo, e.key)].error #
                             Some(<<"User declined to overwrite">>)
         ]_vars

\* the user declined the first pair and confirmed the retry, the retry pass
\* has retried every failed pair and ended, and the declined pair has had
\* no update_secret call
C18_Witness ==
    /\ pc = "done_ok"
    /\ NumPairs >= 2
    /\ <<PairAt(1).repo, PairAt(1).key>> \in declined
    /\ all_results[1].error = Some(<<"User declined to overwrite">>)
    /\ all_failed_secrets # <<>>
    /\ Len(PassCalls(update_log, 2)) = Len(all_failed_secrets)
    /\ UpdatesIn(update_log, PairAt(1).repo, PairAt(1).key) = {}

RunEnded == pc \in {"done_ok", "done_err"}

\* C19: confirm_retry is consulted only when the first pass has recorded a
\* result for every pair and at least one of them is a failure, and before
\* any retry; once it has been consulted the run is in the retry pass or
\* over, from where it is never consulted again (at most once per run).  If
\* it answers false the run ends at once with Ok: no call follows and the
\* results stay as they are.
C19_OneRetryOffer ==
    [][ /\ \A res \in {"true", "false", "Err"} :
              Called("confirm_retry", 2, res) =>
                 /\ pc = "confirm_retry"
                 /\ Len(all_results) = NumPairs
                 /\ \E n \in 1..Len(all_results) : ~all_results[n].success
                 /\ failure_count(all_results) > 0
                 /\ PassCalls(update_log, 2) = <<>>
                 /\ (RetryPassRunning \/ RunEnded)'
        /\ (RetryPassRunning \/ RunEnded) =>
              /\ (RetryPassRunning \/ RunEnded)'
              /\ last_call' # None => last_call'[1].op # "confirm_retry"
        /\ Called("confirm_retry", 2, "false") =>
              /\ pc' = "done_ok"
              /\ all_results' = all_results
              /\ update_log' = update_log
        /\ RunEnded => vars' = vars
      ]_vars

\* the first pass left a failure, the retry was offered and refused, and the
\* run has ended without a further call
C19_Witness ==
    /\ WasCalled("confirm_retry", 2, "false")
    /\ pc = "done_ok"
    /\ Len(all_results) = NumPairs
    /\ failure_count(all_results) > 0
    /\ PassCalls(update_log, 2) = <<>>
    /\ all_failed_secrets # <<>>

\* the number of entries of the list with this outcome, counted entry by
\* entry
RECURSIVE Tally(_, _)
Tally(results, outcome) ==
    IF results = <<>> THEN 0
    ELSE (IF Head(results).success = outcome THEN 1 ELSE 0)
         + Tally(Tail(results), outcome)

\* C20: for every result list the run can hold, the empty one included,
\* success_count is the number of entries with success = true,
\* failure_count the number of the others, and the two add up to the length
\* of the list.
C20_CountsAddUp ==
    LET s == success_count(all_results)
        f == failure_count(all_results)
    IN  /\ s = Tally(all_results, TRUE)
        /\ f = Tally(all_results, FALSE)
        /\ s + f = Len(all_results)
        /\ s \in 0..Len(all_results)
        /\ f \in 0..Len(all_results)
        /\ all_results = <<>> => (s = 0 /\ f = 0)

\* the summary has counted a list with two successes and two failures
C20_Witness ==
    /\ pc = "confirm_retry"
    /\ Len(all_results) = 4
    /\ success_count(all_results) = 2
    /\ failure_count(all_results) = 2
    /\ all_results[1].success
    /\ ~all_results[2].success

\* the sum of the lengths of the groups with these keys
RECURSIVE SumOfSizes(_, _)
SumOfSizes(groups, keys) ==
    IF keys = {} THEN 0
    ELSE LET k == CHOOSE x \in keys : TRUE
         IN  Len(groups[k]) + SumOfSizes(groups, keys \ {k})

\* C21: for every result list the run can hold, repo_results is a
\* partition of it: each result is a member of exactly one group, once,
\* the key of that group is the result's repository display name, no group
\* is empty, and the sizes of the groups add up to the length of the list.
C21_GroupsPartition ==
    LET groups == repo_results(all_results)
    IN  /\ \A n \in 1..Len(all_results) :
              /\ all_results[n].repository \in DOMAIN groups
              /\ \A k \in DOMAIN groups :
                    Cardinality({i \in 1..Len(groups[k]) : groups[k][i] = n})
                      = (IF k = all_results[n].repository THEN 1 ELSE 0)
        /\ \A k \in DOMAIN groups :
              /\ groups[k] # <<>>
              /\ \A i \in 1..Len(groups[k]) : groups[k][i] \in 1..Len(all_results)
        /\ SumOfSizes(groups, DOMAIN groups) = Len(all_results)
        /\ all_results = <<>> => DOMAIN groups = {}

\* the summary has grouped four results, two successes and two failures,
\* of two repositories and printed one line for each repository
C21_Witness ==
    /\ pc = "confirm_retry"
    /\ Len(all_results) = 4
    /\ Len(breakdown) = 2
    /\ breakdown[1].successful = 1
    /\ breakdown[1].failed = 1
    /\ breakdown[2].successful = 1
    /\ all_results[1].repository # all_results[4].repository

\* the position at which a repository first appears in the result list
FirstSeen(results, repo) ==
    CHOOSE n \in 1..Len(results) :
        /\ results[n].repository = repo
        /\ \A m \in 1..(n - 1) : results[m].repository # repo

\* C22: the breakdown goes through the groups in the order in which their
\* repository first appears in the result list, and inside each group the
\* results are in the order they have in the result list.
C22_FirstSeenOrder ==
    /\ \A i, j \in 1..Len(breakdown) :
          i < j => FirstSeen(all_results, breakdown[i].repo)
                     < FirstSeen(all_results, breakdown[j].repo)
    /\ LET groups == repo_results(all_results)
       IN  \A k \in DOMAIN groups :
             \A i, j \in 1..Len(groups[k]) :
                i < j => groups[k][i] < groups[k][j]

\* the summary has printed the repository processed second before the one
\* processed first
C22_Witness ==
    /\ Len(breakdown) = 2
    /\ breakdown[1].repo = all_results[Len(all_results)].repository
    /\ breakdown[2].repo = all_results[1].repository
    /\ breakdown[1].repo # breakdown[2].repo

\* (C30 as stated) the repository of every result is the alias of the
\* repository of its pair when it has one, and "owner/name" otherwise.
C30_AliasAlone ==
    \A n \in 1..Len(all_results) :
        LET repo == repositories[PairAt(n).repo]
        IN  all_results[n].repository =
              (IF repo.alias # None THEN <<repo.alias[1]>>
               ELSE <<repo.owner, "/", repo.name>>)

\* C30: display_name() of a repository is "alias (owner/name)" when an
\* alias is present and "owner/name" otherwise, and this display form is
\* the repository of every result of that repository, in the first pass
\* and after the retry pass.
C30_DisplayNameStored ==
    \A n \in 1..Len(all_results) :
        LET repo == repositories[PairAt(n).repo]
        IN  /\ all_results[n].repository =
                  (IF repo.alias # None
                   THEN <<repo.alias[1], " (", repo.owner, "/", repo.name, ")">>
                   ELSE <<repo.owner, "/", repo.name>>)
            /\ all_results[n].repository = display_name(repo)
            /\ all_results[n].secret_name = PairAt(n).key

\* the run has ended after a retry with a result of the repository that
\* has an alias and a result of one that has none
C30_Witness ==
    /\ pc = "done_ok"
    /\ PassCalls(update_log, 2) # <<>>
    /\ \E n \in 1..Len(all_results) :
          all_results[n].repository = <<"A", " (", "o", "/", "r2", ")">>
    /\ \E n \in 1..Len(all_results) :
          all_results[n].repository = <<"o", "/", "r">>

\* a pair has been looked up and its result is not recorded yet
PairInProgress == pc \in {"confirm_secret_update", "update_secret"}

\* the number, in the order of the first pass, of the pair the loops are at
PairNo == (ri - 1) * Len(secrets) + si

\* C26: at most one pair is in progress at any time: while a pair is in
\* progress every earlier pair has its result and no later pair has been
\* begun, the only calls made are that pair's overwrite prompt and its
\* update_secret, and a lookup is made only when no pair is in progress,
\* for the first pair without a result; every step makes at most one call.
C26_OnePairAtATime ==
    /\ []((PairInProgress \/ pc = "get_secret_info") =>
            /\ PairNo \in 1..NumPairs
            /\ Len(all_results) = PairNo - 1)
    /\ [][ /\ PairInProgress =>
                /\ last_call' # None
                /\ last_call'[1].op \in {"confirm_secret_update",
                                         "update_secret"}
                /\ last_call'[1].pass = 1
                /\ CallIsFor(last_call'[1], PairNo)
                /\ \/ PairInProgress' /\ PairNo' = PairNo
                                      /\ all_results' = all_results
                   \/ pc' = "done_err" /\ all_results' = all_results
                   \/ /\ ~PairInProgress'
                      /\ Len(all_results') = PairNo
                      /\ ResultIsFor(Last(all_results'), PairNo)
          /\ \A res \in {"Err", "None", "Some"} :
                Called("get_secret_info", 1, res) =>
                   /\ ~PairInProgress
                   /\ CallIsFor(last_call'[1], Len(all_results) + 1)
                   /\ res # "Err" => (PairInProgress' /\ PairNo' = PairNo)
         ]_vars

\* the second pair is at its overwrite prompt after the first pair's
\* prompt and update have finished
C26_Witness ==
    /\ pc = "confirm_secret_update"
    /\ PairNo = 2
    /\ Len(all_results) = 1
    /\ update_log # <<>>
    /\ update_log[1].key = PairAt(1).key
    /\ WasCalled("get_secret_info", 1, "Some")

(***************************************************************************)
(* Claims about the GitHubClient, checked under SpecGH                     *)
(***************************************************************************)
\* a call of `method` has returned
Returned(method) ==
    /\ gh_pc = "returned"
    /\ gh_call # <<>>
    /\ gh_call.method = method

\* the remote's last answer was a response with a status in `statuses`
Answered(statuses) ==
    /\ gh_answer # <<>>
    /\ gh_answer[1].kind = "response"
    /\ gh_answer[1].status \in statuses

\* C23: get_secret_info returns Ok(None) when the remote answers 404,
\* Ok(Some(metadata)) with the metadata read when the read succeeds, and
\* an error for every other non-2xx status and for a transport failure; a
\* 404 is never returned as an error.
C23_NotFoundIsNone ==
    Returned("get_secret_info") =>
        /\ Answered({NOT_FOUND}) => gh_result = Some(Ok(None))
        /\ (Answered(SuccessStatuses) /\ gh_answer[1].body.is = "document")
               => gh_result = Some(Ok(Some(gh_answer[1].body.content)))
        /\ Answered(FailureStatuses \ {NOT_FOUND})
               => gh_result[1].tag = "Err"
        /\ gh_answer[1].kind = "transport_failure"
               => gh_result[1].tag = "Err"

\* C23 witness: a lookup answered 404 has returned
C23_Witness ==
    /\ Returned("get_secret_info")
    /\ Answered({NOT_FOUND})
    /\ gh_result = Some(Ok(None))

\* update_secret has returned after its PUT was answered
PutAnswered ==
    /\ Returned("update_secret")
    /\ Len(gh_requests) = 2
    /\ gh_requests[2].method = "PUT"

\* C24: update_secret returns success when the PUT is answered with a
\* success status and an empty body, and returns an error whenever the
\* PUT's response body is non-empty and cannot be decoded.
C24_UndecodableBodyIsError ==
    PutAnswered =>
        /\ (Answered(SuccessStatuses) /\ gh_answer[1].body.is = "empty")
               => gh_result[1].tag = "Ok"
        /\ (Answered(SuccessStatuses)
              /\ gh_answer[1].body.is \in UndecodableBodies)
               => gh_result[1].tag = "Err"

\* C24 witness: a PUT answered 200 with a body that is no JSON at all has
\* been reported as success
C24_Witness ==
    /\ PutAnswered
    /\ Answered({200})
    /\ gh_answer[1].body.is = "text"
    /\ gh_result = Some(Ok(<<>>))

\* the requests of an update_secret call, as far as it has got
PutIssued == \E n \in 1..Len(gh_requests) : gh_requests[n].method = "PUT"

\* C25: update_secret fetches the public key first, then encrypts the
\* value against the fetched key, then issues the PUT carrying the fetched
\* key's identifier and that ciphertext; when the fetch or the encryption
\* fails, no PUT is issued and the call returns an error.
C25_FetchEncryptPut ==
    (gh_call # <<>> /\ gh_call.method = "update_secret") =>
        /\ PutIssued =>
            /\ Len(gh_requests) = 2
            /\ gh_requests[1] = [method |-> "GET",
                                 path |-> SecretPath("public-key")]
            /\ gh_public_key # None
            /\ gh_encrypted_value # None
            /\ gh_encrypted_value[1].base64_of.sealed_for
                    = gh_public_key[1].key
            /\ gh_encrypted_value[1].base64_of.plaintext
                    = gh_call.secret_value[1]
            /\ gh_requests[2].path = SecretPath(gh_call.secret_name)
            /\ gh_requests[2].body.key_id = gh_public_key[1].key_id
            /\ gh_requests[2].body.encrypted_value = gh_encrypted_value[1]
        /\ (gh_pc = "returned"
              /\ (gh_public_key = None \/ gh_encrypted_value = None)) =>
            /\ ~PutIssued
            /\ gh_result[1].tag = "Err"
        /\ gh_pc = "encrypt" => gh_public_key # None
        /\ gh_pc = "put" => gh_encrypted_value # None

\* C25 witness: an update_secret call has fetched the key "kid2",
\* encrypted against it and issued its PUT
C25_Witness ==
    /\ Returned("update_secret")
    /\ PutIssued
    /\ gh_public_key # None
    /\ gh_public_key[1].key_id = "kid2"
    /\ gh_requests[2].body.key_id = "kid2"

\* an update_secret call returned an error without a PUT after the
\* encryption against the fetched key failed
C25_FailureReached ==
    /\ Returned("update_secret")
    /\ gh_public_key # None
    /\ gh_encrypted_value = None
    /\ ~PutIssued

(***************************************************************************)
(* Claims about prompt_secrets_with, checked under SpecPrompt              *)
(***************************************************************************)
\* prompt_secrets_with has returned a list
ListReturned ==
    /\ prompt_pc = "returned"
    /\ prompt_result # <<>>
    /\ prompt_result[1].tag = "Ok"

\* the text is a key of the charset [A-Za-z0-9_-] and of 1 to 100
\* characters
WellFormedKey(text) ==
    /\ Len(text) >= MIN_SECRET_KEY_LENGTH
    /\ Len(text) <= MAX_SECRET_KEY_LENGTH
    /\ \A i \in 1..Len(text) : text[i] \in VALID_SECRET_KEY_PATTERN

\* C27: whatever the key events, every key in the list that
\* prompt_secrets_with returns consists only of characters [A-Za-z0-9_-]
\* and has between 1 and 100 characters.
C27_ReturnedKeysWellFormed ==
    ListReturned =>
        \A n \in 1..Len(prompt_result[1].value) :
            WellFormedKey(prompt_result[1].value[n].key)

\* C27 witness: the events ' ', 'K', Enter, 's', Enter, Esc, 'y' have
\* returned a pair whose key is " K"
C27_Witness ==
    /\ ListReturned
    /\ prompt_result[1].value = <<[key |-> <<" ", "K">>, value |-> <<"s">>]>>

\* a returned key of 101 characters: the held key's run and a space
C27_LongKeyReached ==
    /\ ListReturned
    /\ \E n \in 1..Len(prompt_result[1].value) :
        Len(prompt_result[1].value[n].key) > MAX_SECRET_KEY_LENGTH

\* the texts on the screen and in the lines main printed
ShownTexts ==
    (IF frame = <<>> THEN {}
     ELSE {frame.header, frame.input, frame.message}
          \cup {frame.list[n] : n \in 1..Len(frame.list)})
    \cup {terminal[n] : n \in 1..Len(terminal)}

\* C29: a secret value is never on the terminal unmasked.  No text of the
\* input screen, of the added-secrets list or of main's lines about a pair
\* holds a character of a value; the value field shows one mask character
\* per character typed and a list item shows the key and one mask
\* character per character of the value.
C29_ValuesMasked ==
    /\ \A text \in ShownTexts : \A i \in 1..Len(text) : text[i] # SecretChar
    /\ prompt_pc = "input" =>
        /\ frame.screen = "secret_input"
        /\ input_mode = "Value" =>
                frame.input = <<"Secret value: ">>
                              \o repeat(Bullet, Len(current_value)) \o <<"|">>
        /\ Len(frame.list) = Len(prompt_secrets)
        /\ \A n \in 1..Len(prompt_secrets) :
                frame.list[n] =
                    <<ToString(n), ". ">> \o prompt_secrets[n].key
                    \o <<" = ">>
                    \o repeat(Bullet, Len(prompt_secrets[n].value))

\* C29 witness: the screen shows a committed pair whose value is "ss"
\* while the value "s" is being typed
C29_Witness ==
    /\ prompt_pc = "input"
    /\ input_mode = "Value"
    /\ current_value = <<"s">>
    /\ Len(prompt_secrets) = 1
    /\ prompt_secrets[1].value = <<"s", "s">>
    /\ frame.input = <<"Secret value: ", Bullet, "|">>

\* main has printed the failure of a returned pair whose value is "s"
C29_PrintReached ==
    /\ ListReturned
    /\ Len(terminal) = 2
    /\ \E n \in 1..Len(prompt_result[1].value) :
        prompt_result[1].value[n].value = <<"s">>

(***************************************************************************)
(* Claims about select_repositories_with, checked under SpecSelect         *)
(***************************************************************************)
\* the repositories ticked in `selected`, as 0-based indices
Ticked == {k \in 0..(repositories_len - 1) : selected[k + 2]}

\* C28: for every repository list and every sequence of key events,
\* select_repositories_with returns an error or a non-empty list of distinct
\* indices in ascending order, each a valid index into the list (and the
\* list holds exactly the ticked repositories); Enter with nothing selected
\* gives the error "No repositories selected" and Esc gives "Selection
\* cancelled".
C28_SelectionWellFormed ==
    sel_pc = "returned" =>
        /\ sel_result # <<>>
        /\ sel_result[1].tag = "Ok" =>
            LET indices == sel_result[1].value IN
            /\ indices # <<>>
            /\ \A a, b \in 1..Len(indices) : a < b => indices[a] < indices[b]
            /\ \A a \in 1..Len(indices) :
                    indices[a] >= 0 /\ indices[a] < repositories_len
            /\ {indices[a] : a \in 1..Len(indices)} = Ticked
            /\ sel_event = "Enter"
        /\ (sel_event = "Enter" /\ Ticked = {}) =>
                sel_result = Some(Err(<<"No repositories selected">>))
        /\ sel_event = "Esc" =>
                sel_result = Some(Err(<<"Selection cancelled">>))

\* C28 witness: of three repositories the second and the third were ticked
\* and Enter returned [1, 2]
C28_Witness ==
    /\ sel_pc = "returned"
    /\ repositories_len = 3
    /\ sel_event = "Enter"
    /\ sel_result = Some(Ok(<<1, 2>>))

\* Enter with nothing ticked has returned its error
C28_NothingSelectedReached ==
    /\ sel_pc = "returned"
    /\ repositories_len = 2
    /\ sel_event = "Enter"
    /\ sel_result = Some(Err(<<"No repositories selected">>))

(***************************************************************************)
(* Further claims about the RateLimiter, checked under SpecRL              *)
(***************************************************************************)
\* a call of wait_if_needed is suspended in one of its sleeps
Suspended == rl_pc \in {"poll_sleep", "window_sleep"}

\* C31: a wait_if_needed called with inFlight < maxConcurrent and fewer than
\* maxPerWindow timestamps inside the window never suspends: a call is only
\* ever suspended with every slot held or with maxPerWindow timestamps in
\* its pruned list.  Such a call keeps the counts below the limits through
\* its prune, and every call that completes appends exactly one timestamp
\* (the clock reading) and adds exactly one to inFlight.
C31_NoSuspendBelowLimits ==
    /\ [](Suspended =>
            \/ current_concurrent >= max_concurrent
            \/ Len(request_times) >= max_requests_per_hour)
    /\ [][ (/\ rl_event' = "begin"
            /\ current_concurrent < max_concurrent
            /\ CountInWindow(request_times, clock, window)
                    < max_requests_per_hour)
           => /\ Len(request_times') < max_requests_per_hour
              /\ current_concurrent' = current_concurrent
              /\ ~Suspended'
         ]_vars
    /\ [][ rl_event' = "acquired" =>
              /\ request_times' = Append(request_times, clock)
              /\ current_concurrent' = current_concurrent + 1
         ]_vars

\* C31 witness: with limits of two, an acquire, a release and a second
\* acquire have completed without a sleep: two timestamps, one in flight
C31_Witness ==
    /\ rl_event = "acquired"
    /\ max_requests_per_hour = 2
    /\ max_concurrent = 2
    /\ window > 0
    /\ Len(request_times) = 2
    /\ current_concurrent = 1

(***************************************************************************)
(* Further claims about the run of main, checked under Spec                *)
(***************************************************************************)
\* the position in the log of the latest update_secret call on the n-th
\* pair (0 when there was none)
LatestUpdate(n) ==
    LET calls == UpdatesIn(update_log, PairAt(n).repo, PairAt(n).key)
    IN  IF calls = {} THEN 0
        ELSE CHOOSE u \in calls : \A v \in calls : v <= u

\* C35: at the end of a run, with or without a retry pass, the result
\* entry of every pair is a success exactly when the latest update_secret
\* call made for the pair returned success; a first-pass success is never
\* called again.
C35_EntryFollowsLatestAttempt ==
    pc = "done_ok" =>
        /\ \A n \in 1..Len(all_results) :
              all_results[n].success <=>
                  (/\ LatestUpdate(n) # 0
                   /\ update_log[LatestUpdate(n)].res = "Ok")
        /\ \A u \in 1..Len(update_log) :
              (update_log[u].pass = 1 /\ update_log[u].res = "Ok") =>
                  UpdatesIn(update_log, update_log[u].repo,
                            update_log[u].key) = {u}

\* C35 witness: the run has ended after a retry pass; the latest call on the
\* second pair succeeded in the retry and its entry is still the failure
C35_Witness ==
    /\ pc = "done_ok"
    /\ Len(all_results) = 2
    /\ LatestUpdate(2) # 0
    /\ update_log[LatestUpdate(2)].pass = 2
    /\ update_log[LatestUpdate(2)].res = "Ok"
    /\ ~all_results[2].success


(***************************************************************************)
(* Further claims about prompt_secrets_with                                *)
(***************************************************************************)

DistinctKeys(secs) ==
    \A i, j \in 1..Len(secs) : secs[i].key = secs[j].key => i = j

\* Enter in Value mode on a value that is not blank: the pair is committed
Committing ==
    /\ prompt_pc = "input"
    /\ input_mode = "Value"
    /\ prompt_event' = "Enter"
    /\ trim(current_value) # <<>>

\* C32: the list of committed pairs, and so the returned list, never holds
\* two pairs with the same key; committing a value for a key removes the
\* pair that had this key and appends the new pair at the end, leaving the
\* other pairs in their order; the list returned is the committed list, so
\* the value returned for a key is the one committed last.
C32_NoDuplicateKeys ==
    /\ [](DistinctKeys(prompt_secrets))
    /\ [](ListReturned => DistinctKeys(prompt_result[1].value))
    /\ [][ Committing =>
            LET OtherKey(pair) == pair.key # current_key
                n == Len(prompt_secrets')
            IN  /\ n >= 1
                /\ prompt_secrets'[n] =
                       [key |-> current_key, value |-> current_value]
                /\ SubSeq(prompt_secrets', 1, n - 1) =
                       SelectSeq(prompt_secrets, OtherKey) ]_vars
    /\ [][ (prompt_pc # "returned" /\ prompt_pc' = "returned"
            /\ prompt_result'[1].tag = "Ok")
           => prompt_result'[1].value = prompt_secrets ]_vars

\* C32 witness: a second value was committed for the first of two keys, and
\* its pair now stands last
C32_Witness ==
    /\ prompt_pc = "input"
    /\ prompt_event = "Enter"
    /\ Len(prompt_secrets) = 2
    /\ message = <<"[ok] Secret '">> \o prompt_secrets[2].key
                     \o <<"' updated">>

\* C33: Enter in Key mode on a key that fails validation, and Enter in Value
\* mode on a blank value, leave the committed list, the typed key, the typed
\* value and the input mode as they were and put a warning in the message;
\* every pair of a returned list has a value that is not blank.
C33_RejectedEnterKeepsInput ==
    /\ [][ ( /\ prompt_pc = "input"
             /\ prompt_event' = "Enter"
             /\ \/ /\ input_mode = "Key"
                   /\ validate_secret_key(current_key).tag = "Err"
                \/ /\ input_mode = "Value"
                   /\ trim(current_value) = <<>> )
           => /\ prompt_secrets' = prompt_secrets
              /\ current_key' = current_key
              /\ current_value' = current_value
              /\ input_mode' = input_mode
              /\ prompt_pc' = "input"
              /\ message' # <<>>
              /\ message'[1] \in {"/!\\  ", "/!\\  Value cannot be empty"}
         ]_vars
    /\ [](ListReturned =>
            \A n \in 1..Len(prompt_result[1].value) :
                trim(prompt_result[1].value[n].value) # <<>>)

\* C33 witness: Enter was refused on a value of blanks typed after a pair
\* had been committed, and the typed key and value are still there
C33_Witness ==
    /\ prompt_pc = "input"
    /\ prompt_event = "Enter"
    /\ input_mode = "Value"
    /\ message = <<"/!\\  Value cannot be empty">>
    /\ current_key # <<>>
    /\ current_value # <<>>
    /\ prompt_secrets # <<>>

\* C33: the other refusal, in Key mode, is reached as well
C33_KeyRefusedReached ==
    /\ prompt_pc = "input"
    /\ prompt_event = "Enter"
    /\ input_mode = "Key"
    /\ current_key # <<>>
    /\ message # <<>>
    /\ message[1] = "/!\\  "

\* C34: Esc in Value mode returns to Key mode, clears the typed value, keeps
\* the typed key and leaves the committed list unchanged.
C34_ValueEscKeepsKey ==
    [][ ( /\ prompt_pc = "input"
          /\ input_mode = "Value"
          /\ prompt_event' = "Esc" )
        => /\ input_mode' = "Key"
           /\ current_value' = <<>>
           /\ current_key' = current_key
           /\ prompt_secrets' = prompt_secrets
           /\ prompt_pc' = "input" ]_vars

\* C34 witness: Esc was pressed in Value mode after a value had been typed
\* and a pair committed; the typed key stands in Key mode with no value
C34_Witness ==
    /\ prompt_pc = "input"
    /\ prompt_event = "Esc"
    /\ input_mode = "Key"
    /\ current_key # <<>>
    /\ current_value = <<>>
    /\ prompt_secrets # <<>>

\* C36: Esc in Key mode ends the prompt at once only when no key text is
\* typed and no pair is committed, and otherwise opens the exit confirmation
\* with everything kept; from the confirmation the prompt returns a list only
\* on a yes (y or Enter with the cursor on Yes); a declined confirmation goes
\* back to the input with typed key, typed value, committed pairs and mode
\* unchanged; the returned list is the list of committed pairs.
C36_EscEndsOnlyWhenEmptyOrConfirmed ==
    /\ [][ ( /\ prompt_pc = "input"
             /\ input_mode = "Key"
             /\ prompt_event' = "Esc" )
           => IF current_key = <<>> /\ prompt_secrets = <<>>
              THEN /\ prompt_pc' = "returned"
                   /\ prompt_result' = Some(Ok(<<>>))
              ELSE /\ prompt_pc' = "confirm_exit"
                   /\ prompt_result' = prompt_result
                   /\ prompt_secrets' = prompt_secrets
                   /\ current_key' = current_key
                   /\ input_mode' = input_mode ]_vars
    /\ [][ ( /\ prompt_pc = "confirm_exit"
             /\ prompt_pc' = "returned"
             /\ prompt_result'[1].tag = "Ok" )
           => /\ cursor_pos = 0
              /\ prompt_event' \in {"confirm y", "confirm Enter"}
              /\ prompt_result'[1].value = prompt_secrets ]_vars
    /\ [][ ( /\ prompt_pc = "confirm_exit"
             /\ prompt_pc' = "input" )
           => /\ prompt_event' \in {"confirm n", "confirm Enter",
                                    "confirm Esc"}
              /\ prompt_secrets' = prompt_secrets
              /\ current_key' = current_key
              /\ current_value' = current_value
              /\ input_mode' = input_mode
              /\ prompt_result' = prompt_result ]_vars
    /\ [](prompt_pc = "confirm_exit" =>
            /\ input_mode = "Key"
            /\ current_key # <<>> \/ prompt_secrets # <<>>)

\* C36 witness: the exit confirmation was declined with a key typed and a
\* pair committed, and the input goes on with both
C36_Witness ==
    /\ prompt_pc = "input"
    /\ prompt_event \in {"confirm n", "confirm Enter", "confirm Esc"}
    /\ input_mode = "Key"
    /\ current_key # <<>>
    /\ prompt_secrets # <<>>

\* C36: a confirmed exit with typed text returns the two committed pairs
C36_ConfirmedReached ==
    /\ ListReturned
    /\ prompt_event \in {"confirm y", "confirm Enter"}
    /\ Len(prompt_result[1].value) = 2

\* C36: the immediate exit is reached as well
C36_ImmediateReached ==
    /\ ListReturned
    /\ prompt_event = "Esc"
    /\ prompt_result[1].value = <<>>

(***************************************************************************)
(* Further claims about select_repositories_with                           *)
(***************************************************************************)

\* C37: with a repository list that is not empty, after every sequence of
\* Up, Down and Space the "Select All" flag is set exactly when every
\* repository is ticked, and the cursor is within 0..=number of
\* repositories, which is an index of the selection vector.
C37_SelectAllFollowsTicks ==
    (sel_pc # "idle" /\ repositories_len > 0) =>
        /\ selected[1] <=> (Ticked = 0..(repositories_len - 1))
        /\ list_state \in 0..repositories_len
        /\ Len(selected) = repositories_len + 1
        /\ (list_state + 1) \in DOMAIN selected

\* C37 witness: Space ticked the last of three repositories with the cursor
\* on it, and with the other two ticked the flag is set
C37_Witness ==
    /\ sel_pc = "select"
    /\ repositories_len = 3
    /\ sel_event = "Space"
    /\ list_state = 3
    /\ selected = <<TRUE, TRUE, TRUE, TRUE>>

\* C37: unticking one repository after "Select All" has cleared the flag
C37_FlagClearedReached ==
    /\ sel_pc = "select"
    /\ repositories_len = 3
    /\ sel_event = "Space"
    /\ list_state = 2
    /\ selected = <<FALSE, TRUE, FALSE, TRUE>>

(***************************************************************************)
(* Claims about manage_config_with, checked under SpecManage               *)
(***************************************************************************)

\* the exit confirmation of a delete was answered with yes
DeleteConfirmed ==
    /\ mc_pc = "confirm"
    /\ confirm_pos = 0
    /\ mc_event' \in {"confirm y", "confirm Enter"}

\* C38: while manage_config_with runs, after every sequence of navigate,
\* add, edit and delete operations the list cursor is None exactly when the
\* repository list is empty and is otherwise an index of the list; the index
\* an open edit dialog will write to is an index of the list; and no edit or
\* delete indexes outside the list.
C38_CursorValid ==
    /\ mc_pc # "panicked"
    /\ mc_pc \in {"run", "confirm"} =>
        /\ mc_list_state = None <=> config_repositories = <<>>
        /\ mc_list_state # None =>
                mc_list_state[1] \in 0..(Len(config_repositories) - 1)
        /\ (app_mode = "Input" /\ input_state.edit_index # None) =>
                input_state.edit_index[1] \in
                    0..(Len(config_repositories) - 1)

\* C38 witness: the last of three entries was deleted and the cursor moved
\* back to the entry that is last now
C38_Witness ==
    /\ mc_pc = "run"
    /\ mc_event \in {"confirm y", "confirm Enter"}
    /\ config_repositories = SubSeq(StoredRepositories, 1, 2)
    /\ mc_list_state = Some(1)

\* C38: deleting the only entry leaves no cursor
C38_EmptiedReached ==
    /\ mc_pc = "run"
    /\ mc_event \in {"confirm y", "confirm Enter"}
    /\ config_repositories = <<>>
    /\ mc_list_state = None

\* C38: an entry added to an empty list is under the cursor
C38_AddedReached ==
    /\ mc_pc = "run"
    /\ mc_event = "Input Enter"
    /\ app_mode = "Browsing"
    /\ Len(config_repositories) = 1
    /\ config_repositories[1].owner = <<"a">>
    /\ mc_list_state = Some(0)

\* C39: while manage_config_with runs, the repository list changes only on
\* Enter in the input dialog with an owner and a name that are not blank, or
\* on a delete that is confirmed; Esc in the dialog, Enter with a blank
\* owner or a blank name, and a declined delete leave the list unchanged.
C39_ListChangesOnlyOnSaveOrDelete ==
    /\ [][ (mc_pc # "idle" /\ config_repositories' # config_repositories)
           => \/ /\ InputDialog
                 /\ mc_event' = "Input Enter"
                 /\ trim(input_state.owner) # <<>>
                 /\ trim(input_state.name) # <<>>
              \/ DeleteConfirmed ]_vars
    /\ [][ (InputDialog /\ mc_event' = "Input Esc")
           => /\ config_repositories' = config_repositories
              /\ app_mode' = "Browsing" ]_vars
    /\ [][ ( /\ InputDialog
             /\ mc_event' = "Input Enter"
             /\ \/ trim(input_state.owner) = <<>>
                \/ trim(input_state.name) = <<>> )
           => /\ config_repositories' = config_repositories
              /\ app_mode' = "Input"
              /\ input_state'.error_msg \in
                    {"Owner is required", "Name is required"} ]_vars
    /\ [][ ( /\ mc_pc = "confirm"
             /\ mc_event' \in {"confirm n", "confirm Enter", "confirm Esc"}
             /\ ~DeleteConfirmed )
           => /\ config_repositories' = config_repositories
              /\ mc_list_state' = mc_list_state
              /\ mc_pc' = "run" ]_vars

\* C39 witness: Enter was refused in the dialog opened on the entry whose
\* owner is blank, and the list is as it was given
C39_Witness ==
    /\ mc_pc = "run"
    /\ app_mode = "Input"
    /\ mc_event = "Input Enter"
    /\ input_state.owner = <<" ">>
    /\ input_state.error_msg = "Owner is required"
    /\ config_repositories = StoredRepositories

\* C39: a delete was declined and the three entries are still there
C39_DeclinedReached ==
    /\ mc_pc = "run"
    /\ mc_event \in {"confirm n", "confirm Esc"}
    /\ config_repositories = StoredRepositories

\* C39: an edit was saved and changed the entry in place
C39_EditedReached ==
    /\ mc_pc = "run"
    /\ app_mode = "Browsing"
    /\ mc_event = "Input Enter"
    /\ Len(config_repositories) = 3
    /\ config_repositories[2].alias = Some(<<"a">>)

=============================================================================
